---- MODULE Spec2Model ----
(***************************************************************************)
(* Model of the limit order book of orderbook-rust: the price ladders and  *)
(* the order index of OrderBook (src/src/orderbook/mod.rs), the matching   *)
(* loop, and the sequenced market-data processor                           *)
(* (src/src/market_data/mod.rs).                                           *)
(***************************************************************************)
EXTENDS Integers, Sequences, FiniteSets, TLC

(***************************************************************************)
(* Bounds of the model.                                                    *)
(***************************************************************************)
\* prices offered to the book are 0..MaxPrice (0 is the invalid price)
MaxPrice == 2
\* quantities offered to the book are 0..MaxQty (0 is the invalid quantity)
MaxQty == 2
\* every statistics counter of the book is kept <= MaxStat by the guards
MaxStat == 3
\* sequence numbers of messages are 0..MaxSeq
MaxSeq == 1
MaxFeedSeq == 3
MaxLevels == 3
MaxBatch == 2
MaxStreamSeq == 2
MaxTwinId == 3
\* the live feed numbers its snapshots 1..MaxTick
MaxTick == 2
\* the statistics counters of the books of a registry add up to <= MaxEngineStat
MaxEngineStat == 3
\* a BookSnapshot message lists at most MaxSnapLevels bids and as many asks
MaxSnapLevels == 1
\* the processor's sequence_gaps counter is kept <= MaxGaps by the guards
MaxGaps == 1

Prices == 0..MaxPrice
Quantities == 0..MaxQty
Seqs == 0..MaxSeq
FeedSeqs == 0..MaxFeedSeq
StreamSeqs == 0..MaxStreamSeq

(***************************************************************************)
(* Types (src/src/types/mod.rs).                                           *)
(***************************************************************************)
Side == {"Buy", "Sell"}
OrderType == {"Limit", "Market", "ImmediateOrCancel", "FillOrKill",
              "GoodTillCancel", "GoodForDay"}

\* Price::MAX, the price a Market Buy is given: above every price of the model
PriceMAX == 2147483647

\* Order::new: remaining_quantity starts as quantity
OrderNew(id, side, order_type, price, quantity) ==
    [id |-> id, side |-> side, order_type |-> order_type, price |-> price,
     quantity |-> quantity, remaining_quantity |-> quantity]

\* Trade::new
TradeNew(buy_order_id, sell_order_id, price, quantity) ==
    [buy_order_id |-> buy_order_id, sell_order_id |-> sell_order_id,
     price |-> price, quantity |-> quantity]

\* MarketDataStats::default, the counters the book itself maintains
StatsDefault == [new_orders |-> 0, cancellations |-> 0, modifications |-> 0]

\* the absent order and the absent identifier (no Uuid of the model is 0)
NoId == 0
NoOrder == OrderNew(NoId, "Buy", "Limit", 0, 0)

(***************************************************************************)
(* Helpers for maps and sequences.                                         *)
(***************************************************************************)
EmptyMap == [x \in {} |-> 0]
MapRemove(f, k) == [x \in (DOMAIN f) \ {k} |-> f[x]]
MapPut(f, k, v) == [x \in (DOMAIN f) \cup {k} |-> IF x = k THEN v ELSE f[x]]
MinOf(S) == CHOOSE x \in S : \A y \in S : x <= y
MaxOf(S) == CHOOSE x \in S : \A y \in S : x >= y
SeqRemoveAt(s, pos) == [i \in 1..(Len(s) - 1) |-> IF i < pos THEN s[i] ELSE s[i + 1]]

RECURSIVE SumSeq(_)
SumSeq(s) == IF s = <<>> THEN 0 ELSE Head(s) + SumSeq(Tail(s))

RECURSIVE SumSet(_, _)
SumSet(f, S) ==
    IF S = {} THEN 0
    ELSE LET x == CHOOSE y \in S : TRUE IN f[x] + SumSet(f, S \ {x})

(***************************************************************************)
(* PriceLevel.                                                             *)
(***************************************************************************)
PriceLevelNew(price) == [price |-> price, orders |-> <<>>, total_quantity |-> 0]

\* PriceLevel::add_order
LevelAddOrder(level, order) ==
    [level EXCEPT !.total_quantity = @ + order.remaining_quantity,
                  !.orders = Append(@, order)]

\* a remove_order that forgets the cached total
LevelRemoveOrder_KeepTotal(level, order_id) ==
    IF \E i \in 1..Len(level.orders) : level.orders[i].id = order_id
    THEN LET pos == MinOf({i \in 1..Len(level.orders) : level.orders[i].id = order_id})
         IN [level EXCEPT !.orders = SeqRemoveAt(@, pos)]
    ELSE level

\* a remove_order that takes the head of the queue, whoever it is
LevelRemoveOrder_Front(level, order_id) ==
    IF level.orders # <<>>
    THEN [level EXCEPT !.orders = Tail(@),
                       !.total_quantity = @ - Head(level.orders).remaining_quantity]
    ELSE level

\* PriceLevel::remove_order
LevelRemoveOrder(level, order_id) ==
    IF \E i \in 1..Len(level.orders) : level.orders[i].id = order_id
    THEN LET pos == MinOf({i \in 1..Len(level.orders) : level.orders[i].id = order_id})
             order == level.orders[pos]
         IN [level EXCEPT !.orders = SeqRemoveAt(@, pos),
                          !.total_quantity = @ - order.remaining_quantity]
    ELSE level

(***************************************************************************)
(* OrderBook.  A book value is [bids, asks, orders, stats,                 *)
(* last_sequence_number]: the two ladders (price -> level), the index      *)
(* (id -> the order as it was when it was put to rest), the statistics     *)
(* counters and the sequence number of the last message accepted.          *)
(* Where the code names an intermediate result and reads it several times, *)
(* the model hands it to an operator as an argument.                       *)
(***************************************************************************)
OrderBookNew == [bids |-> EmptyMap, asks |-> EmptyMap, orders |-> EmptyMap,
                 stats |-> StatsDefault, last_sequence_number |-> 0]

\* OrderBook::get_best_bid / get_best_ask; 0 stands for None (no level has price 0)
NoPrice == 0
get_best_bid(b) == IF DOMAIN b.bids = {} THEN NoPrice ELSE MaxOf(DOMAIN b.bids)
get_best_ask(b) == IF DOMAIN b.asks = {} THEN NoPrice ELSE MinOf(DOMAIN b.asks)

\* PriceLevel::get_level_info
get_level_info(price_level) ==
    [price |-> price_level.price, quantity |-> price_level.total_quantity,
     order_count |-> Len(price_level.orders)]

\* self.bids.iter().rev().take(max_levels): the highest prices first
RECURSIVE BestBids(_, _)
BestBids(bids_, max_levels) ==
    IF max_levels = 0 \/ DOMAIN bids_ = {} THEN <<>>
    ELSE <<get_level_info(bids_[MaxOf(DOMAIN bids_)])>>
         \o BestBids(MapRemove(bids_, MaxOf(DOMAIN bids_)), max_levels - 1)

\* self.asks.iter().take(max_levels): the lowest prices first
RECURSIVE BestAsks(_, _)
BestAsks(asks_, max_levels) ==
    IF max_levels = 0 \/ DOMAIN asks_ = {} THEN <<>>
    ELSE <<get_level_info(asks_[MinOf(DOMAIN asks_)])>>
         \o BestAsks(MapRemove(asks_, MinOf(DOMAIN asks_)), max_levels - 1)

\* a snapshot that lists the bids like the asks, lowest price first
get_order_book_snapshot_Ascending(b, max_levels) ==
    [bids |-> BestAsks(b.bids, max_levels), asks |-> BestAsks(b.asks, max_levels),
     sequence_number |-> b.last_sequence_number]

\* OrderBook::get_order_book_snapshot (the timestamp is left out)
get_order_book_snapshot(b, max_levels) ==
    [bids |-> BestBids(b.bids, max_levels), asks |-> BestAsks(b.asks, max_levels),
     sequence_number |-> b.last_sequence_number]

\* OrderBook::size
size(b) == Cardinality(DOMAIN b.orders)

\* a trade quantity of one unit at a time
MinQuantity_Unit(a, b) == IF a = 0 \/ b = 0 THEN 0 ELSE 1

\* max_quantity.min(resting_order.remaining_quantity)
MinQuantity(a, b) == IF a < b THEN a ELSE b

\* a trade that sends a partially filled order to the back of its level
LevelAfterTrade_ToBack(price_level, pos, trade_quantity) ==
    IF price_level.orders[pos].remaining_quantity = trade_quantity
    THEN [price_level EXCEPT !.total_quantity = @ - trade_quantity,
                             !.orders = SeqRemoveAt(@, pos)]
    ELSE [price_level EXCEPT !.total_quantity = @ - trade_quantity,
                             !.orders = Append(SeqRemoveAt(@, pos),
                                 [price_level.orders[pos] EXCEPT
                                     !.remaining_quantity = @ - trade_quantity])]

\* the level after a trade of trade_quantity with the order at position pos:
\* the total is lowered, the order is popped when filled and shrunk otherwise
LevelAfterTrade(price_level, pos, trade_quantity) ==
    IF price_level.orders[pos].remaining_quantity = trade_quantity
    THEN [price_level EXCEPT !.total_quantity = @ - trade_quantity,
                             !.orders = SeqRemoveAt(@, pos)]
    ELSE [price_level EXCEPT !.total_quantity = @ - trade_quantity,
                             !.orders[pos].remaining_quantity = @ - trade_quantity]

\* remove empty price levels
LadderAfterTrade(ladder, price, price_level) ==
    IF price_level.orders = <<>> THEN MapRemove(ladder, price)
    ELSE MapPut(ladder, price, price_level)

\* a match that takes the youngest order of the level (back) instead of the head
MatchHead_Back(ladder, price, max_quantity) ==
    [ladder |-> LadderAfterTrade(ladder, price,
                    LevelAfterTrade(ladder[price], Len(ladder[price].orders),
                        MinQuantity(max_quantity,
                            ladder[price].orders[Len(ladder[price].orders)].remaining_quantity))),
     maker |-> ladder[price].orders[Len(ladder[price].orders)],
     trade_price |-> ladder[price].orders[Len(ladder[price].orders)].price,
     trade_quantity |->
         MinQuantity(max_quantity,
                     ladder[price].orders[Len(ladder[price].orders)].remaining_quantity)]

\* the body shared by match_at_price_level_ask and match_at_price_level_bid:
\* trade the head of the level at `price` against at most max_quantity
MatchHead(ladder, price, max_quantity) ==
    [ladder |-> LadderAfterTrade(ladder, price,
                    LevelAfterTrade(ladder[price], 1,
                        MinQuantity(max_quantity,
                                    Head(ladder[price].orders).remaining_quantity))),
     maker |-> Head(ladder[price].orders),
     trade_price |-> Head(ladder[price].orders).price,
     trade_quantity |->
         MinQuantity(max_quantity, Head(ladder[price].orders).remaining_quantity)]

\* Ok(trade) of match_at_price_level_ask: the incoming order is the buyer
AskTrade(incoming_order, m) ==
    [ok |-> TRUE, ladder |-> m.ladder,
     trade |-> TradeNew(incoming_order.id, m.maker.id, m.trade_price, m.trade_quantity)]

\* a bid-side trade that names the incoming order as the buyer
BidTrade_TakerBuys(incoming_order, m) ==
    [ok |-> TRUE, ladder |-> m.ladder,
     trade |-> TradeNew(incoming_order.id, m.maker.id, m.trade_price, m.trade_quantity)]

\* Ok(trade) of match_at_price_level_bid: the incoming order is the seller
BidTrade(incoming_order, m) ==
    [ok |-> TRUE, ladder |-> m.ladder,
     trade |-> TradeNew(m.maker.id, incoming_order.id, m.trade_price, m.trade_quantity)]

\* Err(OrderNotFound) of match_at_price_level_ask / _bid
NoTrade(ladder) == [ok |-> FALSE, ladder |-> ladder, trade |-> TradeNew(NoId, NoId, 0, 0)]

\* a trade executed at the incoming order's price
AskTrade_AtTakerPrice(incoming_order, m) ==
    [ok |-> TRUE, ladder |-> m.ladder,
     trade |-> TradeNew(incoming_order.id, m.maker.id, incoming_order.price,
                        m.trade_quantity)]

\* a match that executes at the incoming order's price
match_at_price_level_ask_AtTakerPrice(asks_, price, incoming_order, max_quantity) ==
    IF price \in DOMAIN asks_ /\ asks_[price].orders # <<>>
    THEN AskTrade_AtTakerPrice(incoming_order, MatchHead(asks_, price, max_quantity))
    ELSE NoTrade(asks_)

\* OrderBook::match_at_price_level_ask
match_at_price_level_ask(asks_, price, incoming_order, max_quantity) ==
    IF price \in DOMAIN asks_ /\ asks_[price].orders # <<>>
    THEN AskTrade(incoming_order, MatchHead(asks_, price, max_quantity))
    ELSE NoTrade(asks_)

\* OrderBook::match_at_price_level_bid
match_at_price_level_bid(bids_, price, incoming_order, max_quantity) ==
    IF price \in DOMAIN bids_ /\ bids_[price].orders # <<>>
    THEN BidTrade(incoming_order, MatchHead(bids_, price, max_quantity))
    ELSE NoTrade(bids_)

\* a Buy loop that stops after its first trade
MatchBuyNext_Once(incoming_order, remaining_quantity, trades, r) ==
    IF r.ok
    THEN [ok |-> TRUE, ladder |-> r.ladder, trades |-> Append(trades, r.trade)]
    ELSE [ok |-> FALSE, ladder |-> r.ladder, trades |-> trades]

RECURSIVE MatchBuyLoop(_, _, _, _)
\* one turn of the Buy loop once the level was matched: `?` returns the error,
\* otherwise the trade is pushed and remaining_quantity lowered
MatchBuyNext(incoming_order, remaining_quantity, trades, r) ==
    IF r.ok
    THEN MatchBuyLoop(r.ladder, incoming_order, remaining_quantity - r.trade.quantity,
                      Append(trades, r.trade))
    ELSE [ok |-> FALSE, ladder |-> r.ladder, trades |-> trades]

\* the Buy arm of the loop of OrderBook::match_orders
MatchBuyLoop(asks_, incoming_order, remaining_quantity, trades) ==
    IF remaining_quantity > 0 /\ DOMAIN asks_ # {}
    THEN IF incoming_order.price >= MinOf(DOMAIN asks_)
            \/ incoming_order.order_type = "Market"
         THEN MatchBuyNext(incoming_order, remaining_quantity, trades,
                           match_at_price_level_ask(asks_, MinOf(DOMAIN asks_),
                                                    incoming_order, remaining_quantity))
         ELSE [ok |-> TRUE, ladder |-> asks_, trades |-> trades]
    ELSE [ok |-> TRUE, ladder |-> asks_, trades |-> trades]

RECURSIVE MatchSellLoop(_, _, _, _)
\* one turn of the Sell loop once the level was matched
MatchSellNext(incoming_order, remaining_quantity, trades, r) ==
    IF r.ok
    THEN MatchSellLoop(r.ladder, incoming_order, remaining_quantity - r.trade.quantity,
                       Append(trades, r.trade))
    ELSE [ok |-> FALSE, ladder |-> r.ladder, trades |-> trades]

\* the Sell arm of the loop of OrderBook::match_orders
MatchSellLoop(bids_, incoming_order, remaining_quantity, trades) ==
    IF remaining_quantity > 0 /\ DOMAIN bids_ # {}
    THEN IF incoming_order.price <= MaxOf(DOMAIN bids_)
            \/ incoming_order.order_type = "Market"
         THEN MatchSellNext(incoming_order, remaining_quantity, trades,
                            match_at_price_level_bid(bids_, MaxOf(DOMAIN bids_),
                                                     incoming_order, remaining_quantity))
         ELSE [ok |-> TRUE, ladder |-> bids_, trades |-> trades]
    ELSE [ok |-> TRUE, ladder |-> bids_, trades |-> trades]

\* what match_orders leaves: the matched ladder put back into the book
MatchedAsks(b, r) == [ok |-> r.ok, book |-> [b EXCEPT !.asks = r.ladder], trades |-> r.trades]
MatchedBids(b, r) == [ok |-> r.ok, book |-> [b EXCEPT !.bids = r.ladder], trades |-> r.trades]

\* OrderBook::match_orders: [ok, book, trades]; ok is FALSE when a level
\* lookup failed with OrderNotFound (the trades made before it stay applied)
match_orders(b, incoming_order) ==
    IF incoming_order.side = "Buy"
    THEN MatchedAsks(b, MatchBuyLoop(b.asks, incoming_order,
                                     incoming_order.remaining_quantity, <<>>))
    ELSE MatchedBids(b, MatchSellLoop(b.bids, incoming_order,
                                      incoming_order.remaining_quantity, <<>>))

\* entry(price).or_insert_with(|| PriceLevel::new(price)).add_order(order)
LadderAddOrder(ladder, order) ==
    MapPut(ladder, order.price,
           LevelAddOrder(IF order.price \in DOMAIN ladder THEN ladder[order.price]
                         ELSE PriceLevelNew(order.price), order))

\* an add_to_book that queues the order and does not index it
add_to_book_NoIndex(b, order) ==
    IF order.side = "Buy"
    THEN [b EXCEPT !.bids = LadderAddOrder(@, order)]
    ELSE [b EXCEPT !.asks = LadderAddOrder(@, order)]

\* OrderBook::add_to_book
add_to_book(b, order) ==
    IF order.side = "Buy"
    THEN [b EXCEPT !.orders = MapPut(@, order.id, order),
                   !.bids = LadderAddOrder(@, order)]
    ELSE [b EXCEPT !.orders = MapPut(@, order.id, order),
                   !.asks = LadderAddOrder(@, order)]

\* sum of the quantities of a list of trades
TradedQuantity(trades) == SumSeq([i \in 1..Len(trades) |-> trades[i].quantity])

\* the second half of add_to_book_and_match: m is what match_orders returned
RestRemainder(order, m) ==
    IF ~m.ok THEN m
    ELSE IF order.remaining_quantity - TradedQuantity(m.trades) > 0
         THEN [m EXCEPT !.book =
                  add_to_book(@, [order EXCEPT !.remaining_quantity =
                                     @ - TradedQuantity(m.trades)])]
         ELSE m

\* a second half that rests the whole order, not what is left of it
RestRemainder_All(order, m) ==
    IF ~m.ok THEN m ELSE [m EXCEPT !.book = add_to_book(@, order)]

\* an add that rests the whole order after matching, not what is left of it
add_to_book_and_match_RestAll(b, order) == RestRemainder_All(order, match_orders(b, order))

\* an add that rests the order without matching it first
add_to_book_and_match_NoMatch(b, order) ==
    [ok |-> TRUE, book |-> add_to_book(b, order), trades |-> <<>>]

\* OrderBook::add_to_book_and_match
add_to_book_and_match(b, order) == RestRemainder(order, match_orders(b, order))

\* OrderBook::match_market_order
match_market_order(b, order) ==
    match_orders(b, [order EXCEPT !.price = IF order.side = "Buy" THEN PriceMAX ELSE 0])

\* OrderBook::get_available_quantity_for_order
get_available_quantity_for_order(b, order) ==
    IF order.side = "Buy"
    THEN SumSet([p \in DOMAIN b.asks |-> b.asks[p].total_quantity],
                {p \in DOMAIN b.asks : b.asks[p].price <= order.price})
    ELSE SumSet([p \in DOMAIN b.bids |-> b.bids[p].total_quantity],
                {p \in DOMAIN b.bids : b.bids[p].price >= order.price})

\* a fill-or-kill that wants strictly more than it asks for
match_fill_or_kill_Strict(b, order) ==
    IF get_available_quantity_for_order(b, order) > order.quantity
    THEN match_orders(b, order)
    ELSE [ok |-> TRUE, book |-> b, trades |-> <<>>]

\* OrderBook::match_fill_or_kill
match_fill_or_kill(b, order) ==
    IF get_available_quantity_for_order(b, order) >= order.quantity
    THEN match_orders(b, order)
    ELSE [ok |-> TRUE, book |-> b, trades |-> <<>>]

\* an immediate-or-cancel that rests what it could not fill
match_immediate_or_cancel_Rests(b, order) == add_to_book_and_match(b, order)

\* OrderBook::match_immediate_or_cancel
match_immediate_or_cancel(b, order) == match_orders(b, order)

\* the dispatch of add_order on the order type
MatchByType(b, order) ==
    CASE order.order_type = "Market" -> match_market_order(b, order)
      [] order.order_type = "FillOrKill" -> match_fill_or_kill(b, order)
      [] order.order_type = "ImmediateOrCancel" -> match_immediate_or_cancel(b, order)
      [] OTHER -> add_to_book_and_match(b, order)

\* the end of add_order: `?` returns the error of the match, otherwise
\* new_orders is counted and the trades are returned
AddOrderEnd(m) ==
    IF m.ok
    THEN [book |-> [m.book EXCEPT !.stats.new_orders = @ + 1],
          result |-> "Ok", trades |-> m.trades]
    ELSE [book |-> m.book, result |-> "OrderNotFound", trades |-> <<>>]

\* an add_order that counts the order before it validates it
add_order_CountsFirst(b, order) ==
    IF order.id \in DOMAIN b.orders
    THEN [book |-> [b EXCEPT !.stats.new_orders = @ + 1],
          result |-> "OrderAlreadyExists", trades |-> <<>>]
    ELSE IF order.price = 0 /\ order.order_type # "Market"
    THEN [book |-> [b EXCEPT !.stats.new_orders = @ + 1],
          result |-> "InvalidPrice", trades |-> <<>>]
    ELSE IF order.quantity = 0
    THEN [book |-> [b EXCEPT !.stats.new_orders = @ + 1],
          result |-> "InvalidQuantity", trades |-> <<>>]
    ELSE AddOrderEnd(MatchByType(b, order))

\* OrderBook::add_order: [book, result, trades]
add_order(b, order) ==
    IF order.id \in DOMAIN b.orders
    THEN [book |-> b, result |-> "OrderAlreadyExists", trades |-> <<>>]
    ELSE IF order.price = 0 /\ order.order_type # "Market"
    THEN [book |-> b, result |-> "InvalidPrice", trades |-> <<>>]
    ELSE IF order.quantity = 0
    THEN [book |-> b, result |-> "InvalidQuantity", trades |-> <<>>]
    ELSE AddOrderEnd(MatchByType(b, order))

\* the level is put back after remove_order, or dropped when it is empty
LadderAfterRemove(ladder, price, price_level) ==
    IF price_level.orders = <<>> THEN MapRemove(ladder, price)
    ELSE MapPut(ladder, price, price_level)

\* the match on order.side of cancel_order, for one ladder
LadderCancel(ladder, order) ==
    IF order.price \in DOMAIN ladder
    THEN LadderAfterRemove(ladder, order.price,
                           LevelRemoveOrder(ladder[order.price], order.id))
    ELSE ladder

\* a cancel that leaves the level in the ladder when it empties it
LadderCancel_KeepLevel(ladder, order) ==
    IF order.price \in DOMAIN ladder
    THEN MapPut(ladder, order.price, LevelRemoveOrder(ladder[order.price], order.id))
    ELSE ladder

\* a cancel_order that leaves the level in the ladder when it empties it
cancel_order_KeepLevel(b, order_id) ==
    IF order_id \notin DOMAIN b.orders
    THEN [book |-> b, result |-> "OrderNotFound"]
    ELSE [book |->
             IF b.orders[order_id].side = "Buy"
             THEN [b EXCEPT !.orders = MapRemove(@, order_id),
                            !.bids = LadderCancel_KeepLevel(@, b.orders[order_id]),
                            !.stats.cancellations = @ + 1]
             ELSE [b EXCEPT !.orders = MapRemove(@, order_id),
                            !.asks = LadderCancel_KeepLevel(@, b.orders[order_id]),
                            !.stats.cancellations = @ + 1],
          result |-> "Ok"]

\* a cancel_order that counts the call before it looks the order up
cancel_order_CountsFirst(b, order_id) ==
    IF order_id \notin DOMAIN b.orders
    THEN [book |-> [b EXCEPT !.stats.cancellations = @ + 1], result |-> "OrderNotFound"]
    ELSE [book |->
             IF b.orders[order_id].side = "Buy"
             THEN [b EXCEPT !.orders = MapRemove(@, order_id),
                            !.bids = LadderCancel(@, b.orders[order_id]),
                            !.stats.cancellations = @ + 1]
             ELSE [b EXCEPT !.orders = MapRemove(@, order_id),
                            !.asks = LadderCancel(@, b.orders[order_id]),
                            !.stats.cancellations = @ + 1],
          result |-> "Ok"]

\* OrderBook::cancel_order: [book, result]
cancel_order(b, order_id) ==
    IF order_id \notin DOMAIN b.orders
    THEN [book |-> b, result |-> "OrderNotFound"]
    ELSE [book |->
             IF b.orders[order_id].side = "Buy"
             THEN [b EXCEPT !.orders = MapRemove(@, order_id),
                            !.bids = LadderCancel(@, b.orders[order_id]),
                            !.stats.cancellations = @ + 1]
             ELSE [b EXCEPT !.orders = MapRemove(@, order_id),
                            !.asks = LadderCancel(@, b.orders[order_id]),
                            !.stats.cancellations = @ + 1],
          result |-> "Ok"]

\* Option::None for an optional price or quantity
None == -1

\* a replacement that keeps the identifier of the order it replaces
Replacement_KeepsId(old_order, new_price, new_quantity, new_id) ==
    [old_order EXCEPT !.price = IF new_price # None THEN new_price ELSE @,
                      !.remaining_quantity = IF new_quantity # None THEN new_quantity ELSE @]

\* the order modify_order builds from the old one
Replacement(old_order, new_price, new_quantity, new_id) ==
    [old_order EXCEPT !.price = IF new_price # None THEN new_price ELSE @,
                      !.remaining_quantity = IF new_quantity # None THEN new_quantity ELSE @,
                      !.id = new_id]

\* the end of modify_order: `?` returns the error of add_order, otherwise
\* modifications is counted and the trades are returned
ModifyOrderEnd(new_order, a) ==
    IF a.result = "Ok"
    THEN [book |-> [a.book EXCEPT !.stats.modifications = @ + 1],
          result |-> "Ok", trades |-> a.trades, order |-> new_order]
    ELSE [book |-> a.book, result |-> a.result, trades |-> <<>>, order |-> new_order]

\* OrderBook::modify_order: [book, result, trades, order]; new_price and
\* new_quantity are None when absent; new_id is the Uuid the replacement
\* gets; order is the replacement handed to add_order
modify_order(b, order_id, new_price, new_quantity, new_id) ==
    IF order_id \notin DOMAIN b.orders
    THEN [book |-> b, result |-> "OrderNotFound", trades |-> <<>>, order |-> NoOrder]
    ELSE ModifyOrderEnd(
             Replacement(b.orders[order_id], new_price, new_quantity, new_id),
             add_order(cancel_order(b, order_id).book,
                       Replacement(b.orders[order_id], new_price, new_quantity, new_id)))

\* a clear_all_orders that resets the statistics and keeps the orders
clear_all_orders_KeepsOrders(b) == [b EXCEPT !.stats = StatsDefault]

\* a clear_all_orders that also forgets the last sequence number
clear_all_orders_ResetsSequence(b) == OrderBookNew

\* a clear_all_orders that keeps the statistics
clear_all_orders_KeepsStats(b) ==
    [b EXCEPT !.bids = EmptyMap, !.asks = EmptyMap, !.orders = EmptyMap]

\* OrderBook::clear_all_orders
clear_all_orders(b) ==
    [b EXCEPT !.bids = EmptyMap, !.asks = EmptyMap, !.orders = EmptyMap,
              !.stats = StatsDefault]

(***************************************************************************)
(* MarketDataProcessor (src/src/market_data/mod.rs).                       *)
(***************************************************************************)
\* MarketDataStats::default, the counters the processor maintains
ProcStatsDefault ==
    [messages_processed |-> 0, new_orders |-> 0, cancellations |-> 0,
     modifications |-> 0, trades |-> 0, snapshots |-> 0, errors |-> 0,
     sequence_gaps |-> 0]

\* Uuid::new_v4: an identifier that is not in use; the model takes the least
FreshId(used) == MinOf({i \in 1..(Cardinality(used) + 1) : i \notin used})

RECURSIVE SnapshotAdds(_, _, _)
\* one turn of a loop of update_orderbook_with_snapshot once add_order
\* returned: `?` leaves the function at the first error
SnapshotNext(side, levels, a) ==
    IF a.result = "Ok" THEN SnapshotAdds(a.book, side, Tail(levels))
    ELSE [book |-> a.book, result |-> a.result]

\* the add_order loops of update_orderbook_with_snapshot: one Limit order per
\* listed level
SnapshotAdds(b, side, levels) ==
    IF levels = <<>> THEN [book |-> b, result |-> "Ok"]
    ELSE SnapshotNext(side, levels,
                      add_order(b, OrderNew(FreshId(DOMAIN b.orders), side, "Limit",
                                            Head(levels).price, Head(levels).quantity)))

\* the asks of the snapshot are added when the bids all went in
SnapshotAsks(withBids, asks_) ==
    IF withBids.result # "Ok" THEN withBids
    ELSE SnapshotAdds(withBids.book, "Sell", asks_)

\* MarketDataProcessor::update_orderbook_with_snapshot
update_orderbook_with_snapshot(b, snapshot) ==
    SnapshotAsks(SnapshotAdds(clear_all_orders(b), "Buy", snapshot.bids), snapshot.asks)

\* the fields of OrderBookError::SequenceGap; NoGap when the call did not
\* fail with it
SequenceGap(expected, actual) == [expected |-> expected, actual |-> actual]
NoGap == SequenceGap(0, 0)

\* an unwrap_or that hands an absent value on
UnwrapOr_Keeps(option, default) == option

\* Option::unwrap_or
UnwrapOr(option, default) == IF option = None THEN default ELSE option

\* a dispatch that counts the message and not its variant
Dispatched_SkipsCounter(st, counter, r, hasTrades, order) ==
    [book |-> r.book,
     stats |-> IF r.result = "Ok" THEN [st EXCEPT !.messages_processed = @ + 1] ELSE st,
     result |-> r.result,
     trades |-> IF hasTrades THEN r.trades ELSE <<>>,
     order |-> order,
     gap |-> NoGap]

\* a dispatch that counts the message also when its operation failed
Dispatched_CountsFailures(st, counter, r, hasTrades, order) ==
    [book |-> r.book,
     stats |-> IF r.result = "Ok"
               THEN [st EXCEPT ![counter] = @ + 1, !.messages_processed = @ + 1]
               ELSE [st EXCEPT !.messages_processed = @ + 1],
     result |-> r.result,
     trades |-> IF hasTrades THEN r.trades ELSE <<>>,
     order |-> order,
     gap |-> NoGap]

\* what process_market_data leaves once the book operation r returned: `?`
\* returns its error, otherwise the variant's counter and messages_processed
\* are counted
Dispatched(st, counter, r, hasTrades, order) ==
    [book |-> r.book,
     stats |-> IF r.result = "Ok"
               THEN [st EXCEPT ![counter] = @ + 1, !.messages_processed = @ + 1]
               ELSE st,
     result |-> r.result,
     trades |-> IF hasTrades THEN r.trades ELSE <<>>,
     order |-> order,
     gap |-> NoGap]

\* an order that takes the identifier the message carries
NewOrderOf_Adopts(new_id, message) ==
    OrderNew(message.order_id, message.side, message.order_type, message.price,
             message.quantity)

\* Order::new(msg.side, msg.order_type, msg.price, msg.quantity, None): the
\* identifier is the Uuid generated in Order::new
NewOrderOf(new_id, message) ==
    OrderNew(new_id, message.side, message.order_type, message.price, message.quantity)

\* the match on the message of process_market_data; b is the book with
\* last_sequence_number already assigned
Dispatch(b, st, message, new_id) ==
    CASE message.kind = "NewOrder" ->
           Dispatched(st, "new_orders",
                      add_order(b, NewOrderOf(new_id, message)), TRUE,
                      NewOrderOf(new_id, message))
      [] message.kind = "CancelOrder" ->
           Dispatched(st, "cancellations", cancel_order(b, message.order_id),
                      FALSE, NoOrder)
      [] message.kind = "ModifyOrder" ->
           Dispatched(st, "modifications",
                      modify_order(b, message.order_id,
                                   UnwrapOr(message.new_price, 0),
                                   message.new_quantity, new_id),
                      TRUE,
                      IF message.order_id \in DOMAIN b.orders
                      THEN Replacement(b.orders[message.order_id],
                                       UnwrapOr(message.new_price, 0),
                                       message.new_quantity, new_id)
                      ELSE NoOrder)
      [] message.kind = "Trade" ->
           Dispatched(st, "trades", [book |-> b, result |-> "Ok"], FALSE, NoOrder)
      [] message.kind = "BookSnapshot" ->
           Dispatched(st, "snapshots", update_orderbook_with_snapshot(b, message),
                      FALSE, NoOrder)

\* a process_market_data that lets a repeated sequence number through
process_market_data_Strict(b, st, message) ==
    IF message.sequence_number < b.last_sequence_number
    THEN [book |-> b, stats |-> [st EXCEPT !.sequence_gaps = @ + 1],
          result |-> "SequenceGap", trades |-> <<>>, order |-> NoOrder,
          gap |-> SequenceGap(b.last_sequence_number + 1, message.sequence_number)]
    ELSE Dispatch([b EXCEPT !.last_sequence_number = message.sequence_number],
                  st, message, FreshId(DOMAIN b.orders))

\* MarketDataProcessor::process_market_data:
\* [book, stats, result, trades, order, gap]
process_market_data(b, st, message) ==
    IF message.sequence_number <= b.last_sequence_number
    THEN [book |-> b, stats |-> [st EXCEPT !.sequence_gaps = @ + 1],
          result |-> "SequenceGap", trades |-> <<>>, order |-> NoOrder,
          gap |-> SequenceGap(b.last_sequence_number + 1, message.sequence_number)]
    ELSE Dispatch([b EXCEPT !.last_sequence_number = message.sequence_number],
                  st, message, FreshId(DOMAIN b.orders))

\* a batch that does not count the messages that fail
BatchCounted_Silent(processed, r) ==
    [book |-> r.book, stats |-> r.stats, result |-> r.result,
     processed |-> IF r.result = "Ok" THEN processed + 1 ELSE processed]

\* the match on the result of process_market_data in the loop of
\* process_market_data_batch: Ok counts in processed, Err in stats.errors
BatchCounted(processed, r) ==
    [book |-> r.book,
     stats |-> IF r.result = "Ok" THEN r.stats ELSE [r.stats EXCEPT !.errors = @ + 1],
     result |-> r.result,
     processed |-> IF r.result = "Ok" THEN processed + 1 ELSE processed]

\* one turn of the loop of MarketDataProcessor::process_market_data_batch
BatchIteration(b, st, processed, message) ==
    BatchCounted(processed, process_market_data(b, st, message))

(***************************************************************************)
(* MatchingEngine (src/src/matching/mod.rs): the registry of books, a map  *)
(* order_books from a symbol to its book.                                  *)
(***************************************************************************)
\* the symbols the callers name
Symbols == {"A", "B"}

\* MatchingEngine::new
MatchingEngineNew == EmptyMap

\* self.order_books.entry(symbol).or_insert_with(|| OrderBook::new())
EntryOrInsert(order_books, symbol) ==
    IF symbol \in DOMAIN order_books THEN order_books
    ELSE MapPut(order_books, symbol, OrderBookNew)

\* a registry that keeps one book for all its symbols
Forwarded_OneBook(order_books, symbol, r) ==
    [order_books |-> [s \in DOMAIN order_books |-> r.book],
     result |-> r.result, trades |-> r.trades]

\* the call was made on the book of the symbol (a &mut into the map) and its
\* result is returned as it is
Forwarded(order_books, symbol, r) ==
    [order_books |-> [order_books EXCEPT ![symbol] = r.book],
     result |-> r.result, trades |-> r.trades]

\* MatchingEngine::add_order
MatchingEngine_add_order(order_books, symbol, order) ==
    Forwarded(EntryOrInsert(order_books, symbol), symbol,
              add_order(EntryOrInsert(order_books, symbol)[symbol], order))

\* a lookup that makes the book of a symbol it does not know
NoBook_Creates(order_books) ==
    [order_books |-> [s \in Symbols |->
                         IF s \in DOMAIN order_books THEN order_books[s] ELSE OrderBookNew],
     result |-> "OrderNotFound", trades |-> <<>>]

\* Err(OrderNotFound) for a symbol that has no book
NoBook(order_books) == [order_books |-> order_books, result |-> "OrderNotFound", trades |-> <<>>]

\* cancel_order returns (); the registry returns it as it is
CancelReturned(c) == [book |-> c.book, result |-> c.result, trades |-> <<>>]

\* MatchingEngine::cancel_order
MatchingEngine_cancel_order(order_books, symbol, order_id) ==
    IF symbol \in DOMAIN order_books
    THEN Forwarded(order_books, symbol, CancelReturned(cancel_order(order_books[symbol], order_id)))
    ELSE NoBook(order_books)

\* MatchingEngine::modify_order; new_id is the Uuid the replacement gets
MatchingEngine_modify_order(order_books, symbol, order_id, new_price, new_quantity, new_id) ==
    IF symbol \in DOMAIN order_books
    THEN Forwarded(order_books, symbol,
                   modify_order(order_books[symbol], order_id, new_price, new_quantity, new_id))
    ELSE NoBook(order_books)

(***************************************************************************)
(* The state machine: one book, one processor bound to it, and the record  *)
(* of the latest call (its arguments and what it returned).                *)
(***************************************************************************)
VARIABLES book, pstats, last, twin, engine, shared

vars == <<book, pstats, last, twin, engine, shared>>

\* the message of the latest call, NoMessage when it was not a process call
NoMessage == [kind |-> "none", sequence_number |-> 0]

\* the OrderBookSnapshot of the latest call, NoSnapshot when it returned none
NoSnapshot == [bids |-> <<>>, asks |-> <<>>, sequence_number |-> 0]

\* the symbol of the latest call, NoSymbol when it was not made on the registry
NoSymbol == ""

Call(op, kind, order, order_id, result, trades) ==
    [op |-> op, kind |-> kind, order |-> order, order_id |-> order_id,
     result |-> result, trades |-> trades, message |-> NoMessage, gap |-> NoGap,
     max_levels |-> 0, snapshot |-> NoSnapshot,
     batch_len |-> 0, processed |-> 0, errors_before |-> 0, twin_result |-> "Ok",
     symbol |-> NoSymbol]

\* no call has returned a value that the caller still holds
NoCall == Call("none", "none", NoOrder, NoId, "Ok", <<>>)
Idle == last = NoCall

\* the tasks that share one book behind a mutex: the live feed of
\* BinanceMarketDataFeed::start_live_feed and a caller of process_market_data
\* that has a processor of its own
Tasks == {"feed", "caller"}

\* the mutex is held by no task
NoHolder == "none"

\* Arc::new(Mutex::new(OrderBook::new())) with a MarketDataProcessor::new per
\* task: lock is the holder of the mutex, pc the position of each task,
\* message the message a task is processing, stats the statistics of its
\* processor, sequence_counter the local of start_live_feed, levels the part
\* of a snapshot that still is to be added
SharedNew ==
    [lock |-> NoHolder,
     pc |-> [t \in Tasks |-> IF t = "feed" THEN "tick" ELSE "idle"],
     message |-> [t \in Tasks |-> NoMessage],
     stats |-> [t \in Tasks |-> ProcStatsDefault],
     sequence_counter |-> 1,
     levels |-> <<>>]

Init ==
    /\ book = OrderBookNew
    /\ pstats = ProcStatsDefault
    /\ last = NoCall
    /\ twin = [book |-> OrderBookNew, pstats |-> ProcStatsDefault]
    /\ engine = MatchingEngineNew
    /\ shared = SharedNew

\* identifiers a caller may name: those the index knows and one it does not
KnownOrFresh == DOMAIN book.orders \cup {FreshId(DOMAIN book.orders)}

\* add_order returns a to its caller
AddOrderReturns(order, a) ==
    /\ book' = a.book
    /\ last' = Call("add_order", "none", order, NoId, a.result, a.trades)

\* a call of OrderBook::add_order with an order made by Order::new
AddOrder ==
    /\ Idle
    /\ book.stats.new_orders < MaxStat
    /\ \E id \in KnownOrFresh, side \in Side, order_type \in OrderType,
          price \in Prices, quantity \in Quantities :
          AddOrderReturns(OrderNew(id, side, order_type, price, quantity),
                          add_order(book, OrderNew(id, side, order_type, price, quantity)))
    /\ UNCHANGED <<pstats, twin, engine, shared>>

\* cancel_order returns c to its caller
CancelOrderReturns(order_id, c) ==
    /\ book' = c.book
    /\ last' = Call("cancel_order", "none", NoOrder, order_id, c.result, <<>>)

\* a call of OrderBook::cancel_order
CancelOrder ==
    /\ Idle
    /\ book.stats.cancellations < MaxStat
    /\ \E order_id \in KnownOrFresh :
          CancelOrderReturns(order_id, cancel_order(book, order_id))
    /\ UNCHANGED <<pstats, twin, engine, shared>>

\* modify_order returns m to its caller
ModifyOrderReturns(order_id, m) ==
    /\ book' = m.book
    /\ last' = Call("modify_order", "none", m.order, order_id, m.result, m.trades)

\* a call of OrderBook::modify_order
ModifyOrder ==
    /\ Idle
    /\ book.stats.new_orders < MaxStat
    /\ book.stats.cancellations < MaxStat
    /\ book.stats.modifications < MaxStat
    /\ \E order_id \in KnownOrFresh, new_price \in Prices \cup {None},
          new_quantity \in Quantities \cup {None} :
          ModifyOrderReturns(order_id,
                             modify_order(book, order_id, new_price, new_quantity,
                                          FreshId(DOMAIN book.orders)))
    /\ UNCHANGED <<pstats, twin, engine, shared>>

\* a call of OrderBook::clear_all_orders
ClearAllOrders ==
    /\ Idle
    /\ book' = clear_all_orders(book)
    /\ last' = Call("clear_all_orders", "none", NoOrder, NoId, "Ok", <<>>)
    /\ UNCHANGED <<pstats, twin, engine, shared>>

\* a call of OrderBook::get_order_book_snapshot
GetOrderBookSnapshot ==
    /\ Idle
    /\ \E max_levels \in 0..MaxLevels :
          last' = [Call("get_order_book_snapshot", "none", NoOrder, NoId, "Ok", <<>>)
                      EXCEPT !.max_levels = max_levels,
                             !.snapshot = get_order_book_snapshot(book, max_levels)]
    /\ UNCHANGED <<book, pstats, twin, engine, shared>>

\* the messages a feed may deliver
LevelInfos == [price : Prices, quantity : Quantities]
LevelLists == UNION {[1..n -> LevelInfos] : n \in 0..MaxSnapLevels}
MessagesIn(seqs) ==
    [kind : {"NewOrder"}, sequence_number : seqs, side : Side, order_type : OrderType,
     price : Prices, quantity : Quantities]
    \cup [kind : {"CancelOrder"}, sequence_number : seqs, order_id : KnownOrFresh]
    \cup [kind : {"ModifyOrder"}, sequence_number : seqs, order_id : KnownOrFresh,
          new_price : Prices \cup {None}, new_quantity : Quantities \cup {None}]
    \cup [kind : {"Trade"}, sequence_number : seqs]
    \cup [kind : {"BookSnapshot"}, sequence_number : seqs, bids : LevelLists,
          asks : LevelLists]
Messages == MessagesIn(Seqs)

\* process_market_data returns r to its caller
ProcessReturns(message, r) ==
    /\ r.stats.sequence_gaps <= MaxGaps
    /\ book' = r.book
    /\ pstats' = r.stats
    /\ last' = [Call("process", message.kind, r.order,
                     IF message.kind \in {"CancelOrder", "ModifyOrder"}
                     THEN message.order_id ELSE NoId,
                     r.result, r.trades)
                    EXCEPT !.message = message, !.gap = r.gap]

\* a call of MarketDataProcessor::process_market_data
Process ==
    /\ Idle
    /\ book.stats.new_orders < MaxStat
    /\ book.stats.cancellations < MaxStat
    /\ book.stats.modifications < MaxStat
    /\ \E message \in Messages :
          ProcessReturns(message, process_market_data(book, pstats, message))
    /\ UNCHANGED <<twin, engine, shared>>

\* a call of MarketDataProcessor::process_market_data by a feed that is the
\* only user of the book; its sequence numbers may skip and repeat
Feed ==
    /\ Idle
    /\ book.stats.new_orders < MaxStat
    /\ book.stats.cancellations < MaxStat
    /\ book.stats.modifications < MaxStat
    /\ \E message \in MessagesIn(FeedSeqs) :
          ProcessReturns(message, process_market_data(book, pstats, message))
    /\ UNCHANGED <<twin, engine, shared>>

\* a call of MarketDataProcessor::process_market_data_batch begins: nothing
\* is processed yet; errors_before is what the caller read in get_stats
ProcessBatchBegins ==
    /\ Idle
    /\ last' = [Call("process_market_data_batch", "none", NoOrder, NoId, "Ok", <<>>)
                    EXCEPT !.errors_before = pstats.errors]
    /\ UNCHANGED <<book, pstats, twin, engine, shared>>

\* the loop took the next message of the batch and it left it
BatchMessageDone(message, it) ==
    /\ it.stats.sequence_gaps <= MaxGaps
    /\ book' = it.book
    /\ pstats' = it.stats
    /\ last' = [last EXCEPT !.kind = message.kind, !.result = it.result,
                            !.batch_len = @ + 1, !.processed = it.processed]

\* the loop of process_market_data_batch takes the next message of the
\* batch; the batch is the list of the messages taken when the call returns
ProcessBatchMessage ==
    /\ last.op = "process_market_data_batch"
    /\ last.batch_len < MaxBatch
    /\ pstats.errors < MaxStat
    /\ book.stats.new_orders < MaxStat
    /\ book.stats.cancellations < MaxStat
    /\ book.stats.modifications < MaxStat
    /\ \E message \in MessagesIn(StreamSeqs) :
          BatchMessageDone(message, BatchIteration(book, pstats, last.processed, message))
    /\ UNCHANGED <<twin, engine, shared>>

\* the identifiers a stream may name
IdPool == 1..MaxTwinId

\* the messages of a stream that is fixed in advance: every message names an
\* identifier of its own choice, a NewOrder message too
NamedMessages(seqs, ids) ==
    [kind : {"NewOrder"}, sequence_number : seqs, order_id : ids, side : Side,
     order_type : OrderType, price : Prices, quantity : Quantities]
    \cup [kind : {"CancelOrder"}, sequence_number : seqs, order_id : ids]
    \cup [kind : {"ModifyOrder"}, sequence_number : seqs, order_id : ids,
          new_price : Prices \cup {None}, new_quantity : Quantities \cup {None}]
    \cup [kind : {"Trade"}, sequence_number : seqs]
    \cup [kind : {"BookSnapshot"}, sequence_number : seqs, bids : LevelLists,
          asks : LevelLists]

\* Uuid::new_v4 of the second pair: where the first pair is handed the
\* identifier i, the second is handed TwinId(i)
TwinId(i) == IF i = MaxTwinId THEN 1 ELSE i + 1

\* the second book is kept under the names of the first (TwinId(i) is kept
\* as i), so the identifier x of a message is, there, the i with TwinId(i) = x
TwinName(x) == IF x = 1 THEN MaxTwinId ELSE x - 1

\* the message as the second pair reads it
TwinReads(message) ==
    IF message.kind \in {"NewOrder", "CancelOrder", "ModifyOrder"}
    THEN [message EXCEPT !.order_id = TwinName(@)]
    ELSE message

\* process_market_data returns r to the first pair and t to the second
TwinReturns(message, r, t) ==
    /\ r.stats.sequence_gaps <= MaxGaps
    /\ book' = r.book
    /\ pstats' = r.stats
    /\ twin' = [book |-> t.book, pstats |-> t.stats]
    /\ last' = [Call("process", message.kind, r.order,
                     IF message.kind \in {"CancelOrder", "ModifyOrder"}
                     THEN message.order_id ELSE NoId,
                     r.result, r.trades)
                    EXCEPT !.message = message, !.gap = r.gap, !.twin_result = t.result]

\* two fresh pairs of a book and a processor are handed the same message
FeedTwin ==
    /\ Idle
    /\ book.stats.new_orders < MaxStat
    /\ book.stats.cancellations < MaxStat
    /\ book.stats.modifications < MaxStat
    /\ \E message \in NamedMessages(StreamSeqs, IdPool) :
          TwinReturns(message, process_market_data(book, pstats, message),
                      process_market_data(twin.book, twin.pstats, TwinReads(message)))
    /\ UNCHANGED <<engine, shared>>

\* identifiers a caller of the registry may name: those some book indexes
\* and one that none does
EngineIds == UNION {DOMAIN engine[s].orders : s \in DOMAIN engine}
EngineKnownOrFresh == EngineIds \cup {FreshId(EngineIds)}

\* a statistics counter summed over the books of the registry
EngineCount(counter) == SumSet([s \in DOMAIN engine |-> engine[s].stats[counter]], DOMAIN engine)

\* a call of the registry on `symbol` returns r to its caller
EngineReturns(op, symbol, order, order_id, r) ==
    /\ engine' = r.order_books
    /\ last' = [Call(op, "none", order, order_id, r.result, r.trades)
                   EXCEPT !.symbol = symbol]

\* a call of MatchingEngine::add_order with an order made by Order::new
EngineAddOrder ==
    /\ Idle
    /\ EngineCount("new_orders") < MaxEngineStat
    /\ \E symbol \in Symbols, id \in EngineKnownOrFresh, side \in Side,
          order_type \in OrderType, price \in Prices, quantity \in Quantities :
          EngineReturns("engine_add_order", symbol,
                        OrderNew(id, side, order_type, price, quantity), NoId,
                        MatchingEngine_add_order(engine, symbol,
                            OrderNew(id, side, order_type, price, quantity)))
    /\ UNCHANGED <<book, pstats, twin, shared>>

\* a call of MatchingEngine::cancel_order
EngineCancelOrder ==
    /\ Idle
    /\ EngineCount("cancellations") < MaxEngineStat
    /\ \E symbol \in Symbols, order_id \in EngineKnownOrFresh :
          EngineReturns("engine_cancel_order", symbol, NoOrder, order_id,
                        MatchingEngine_cancel_order(engine, symbol, order_id))
    /\ UNCHANGED <<book, pstats, twin, shared>>

\* a call of MatchingEngine::modify_order
EngineModifyOrder ==
    /\ Idle
    /\ EngineCount("new_orders") < MaxEngineStat
    /\ EngineCount("cancellations") < MaxEngineStat
    /\ EngineCount("modifications") < MaxEngineStat
    /\ \E symbol \in Symbols, order_id \in EngineKnownOrFresh,
          new_price \in Prices \cup {None}, new_quantity \in Quantities \cup {None} :
          EngineReturns("engine_modify_order", symbol, NoOrder, order_id,
                        MatchingEngine_modify_order(engine, symbol, order_id, new_price,
                                                    new_quantity, FreshId(EngineIds)))
    /\ UNCHANGED <<book, pstats, twin, shared>>

\* the positions at which a task holds the MutexGuard of the book: in
\* process_market_data from the sequence check to the end of the dispatch,
\* and in start_live_feed while it displays the book
Critical == {"check", "dispatch", "bids", "asks", "display"}

\* a guard that is forgotten instead of dropped
DropGuard_Leaks(t) == t

\* the MutexGuard goes out of scope (or is dropped by hand): the mutex is free
DropGuard(t) == NoHolder

\* where a task goes on when process_market_data has returned: the live feed
\* displays the book after Ok and waits for the next tick after Err
AfterProcess(t, result) ==
    IF t = "feed" THEN (IF result = "Ok" THEN "display_lock" ELSE "tick") ELSE "idle"

\* interval.tick().await of start_live_feed has completed
FeedTick ==
    /\ shared.pc["feed"] = "tick"
    /\ shared' = [shared EXCEPT !.pc["feed"] = "fetch"]
    /\ UNCHANGED <<book, pstats, last, twin, engine>>

\* self.get_order_book_snapshot().await of start_live_feed has failed
FeedFetchFails ==
    /\ shared.pc["feed"] = "fetch"
    /\ shared' = [shared EXCEPT !.pc["feed"] = "tick"]
    /\ UNCHANGED <<book, pstats, last, twin, engine>>

\* self.get_order_book_snapshot().await of start_live_feed has returned a
\* snapshot, which is numbered and handed to process_market_data
FeedFetches ==
    /\ shared.pc["feed"] = "fetch"
    /\ shared.sequence_counter <= MaxTick
    /\ \E bids_ \in LevelLists, asks_ \in LevelLists :
          shared' = [shared EXCEPT
                        !.message["feed"] =
                            [kind |-> "BookSnapshot",
                             sequence_number |-> shared.sequence_counter,
                             bids |-> bids_, asks |-> asks_],
                        !.sequence_counter = @ + 1,
                        !.pc["feed"] = "lock"]
    /\ UNCHANGED <<book, pstats, last, twin, engine>>

\* the messages the other task hands to process_market_data: orders and
\* cancellations (the snapshots come from the live feed)
CallerMessages ==
    {message \in Messages :
        /\ message.kind \in {"NewOrder", "CancelOrder", "Trade"}
        /\ message.kind = "NewOrder" => message.order_type \in {"Limit", "Market"}}

\* the other task calls process_market_data on its own processor, and
\* self.order_book.lock().unwrap() returns: the call waits until the mutex
\* is free
CallerCalls ==
    /\ shared.pc["caller"] = "idle"
    /\ shared.stats["caller"].sequence_gaps <= MaxGaps
    /\ shared.lock = NoHolder
    /\ \E message \in CallerMessages :
          shared' = [shared EXCEPT !.message["caller"] = message,
                                   !.lock = "caller",
                                   !.pc["caller"] = "check"]
    /\ UNCHANGED <<book, pstats, last, twin, engine>>

\* self.order_book.lock().unwrap() of the process_market_data that the live
\* feed called returns
Acquire ==
    /\ shared.pc["feed"] = "lock"
    /\ shared.lock = NoHolder
    /\ shared' = [shared EXCEPT !.lock = "feed", !.pc["feed"] = "check"]
    /\ UNCHANGED <<book, pstats, last, twin, engine>>

\* the sequence check of process_market_data: Err(SequenceGap) returns and
\* drops the guard, otherwise last_sequence_number is assigned
CheckSequence(t) ==
    /\ shared.pc[t] = "check"
    /\ IF shared.message[t].sequence_number <= book.last_sequence_number
       THEN /\ shared' = [shared EXCEPT !.stats[t].sequence_gaps = @ + 1,
                                        !.message[t] = NoMessage,
                                        !.lock = DropGuard(t),
                                        !.pc[t] = AfterProcess(t, "SequenceGap")]
            /\ book' = book
       ELSE /\ shared' = [shared EXCEPT !.pc[t] = "dispatch"]
            /\ book' = [book EXCEPT
                           !.last_sequence_number = shared.message[t].sequence_number]
    /\ UNCHANGED <<pstats, last, twin, engine>>

\* process_market_data returns r and drops the guard
ProcessEnds(t, r) ==
    /\ shared' = [shared EXCEPT !.stats[t] = r.stats,
                                !.message[t] = NoMessage,
                                !.lock = DropGuard(t),
                                !.pc[t] = AfterProcess(t, r.result),
                                !.levels = <<>>]
    /\ book' = r.book

\* the match on the message of process_market_data: a BookSnapshot begins
\* update_orderbook_with_snapshot with clear_all_orders, every other message
\* is dispatched and the function returns
DispatchMessage(t) ==
    /\ shared.pc[t] = "dispatch"
    /\ IF shared.message[t].kind = "BookSnapshot"
       THEN /\ book' = clear_all_orders(book)
            /\ shared' = [shared EXCEPT !.levels = shared.message[t].bids,
                                        !.pc[t] = "bids"]
       ELSE ProcessEnds(t, Dispatch(book, shared.stats[t], shared.message[t],
                                    FreshId(DOMAIN book.orders)))
    /\ UNCHANGED <<pstats, last, twin, engine>>

\* one turn of a loop of update_orderbook_with_snapshot once add_order
\* returned a: `?` leaves process_market_data at the first error
SnapshotTurn(t, a) ==
    IF a.result = "Ok"
    THEN /\ book' = a.book
         /\ shared' = [shared EXCEPT !.levels = Tail(@)]
    ELSE ProcessEnds(t, Dispatched(shared.stats[t], "snapshots", a, FALSE, NoOrder))

\* a step of update_orderbook_with_snapshot under the guard: the next level
\* is added, the bids loop hands over to the asks loop, or the asks loop is
\* through and process_market_data counts the snapshot and returns
SnapshotStep(t) ==
    /\ shared.pc[t] \in {"bids", "asks"}
    /\ IF shared.levels # <<>>
       THEN SnapshotTurn(t, add_order(book,
                OrderNew(FreshId(DOMAIN book.orders),
                         IF shared.pc[t] = "bids" THEN "Buy" ELSE "Sell", "Limit",
                         Head(shared.levels).price, Head(shared.levels).quantity)))
       ELSE IF shared.pc[t] = "bids"
       THEN /\ shared' = [shared EXCEPT !.levels = shared.message[t].asks,
                                        !.pc[t] = "asks"]
            /\ book' = book
       ELSE ProcessEnds(t, Dispatched(shared.stats[t], "snapshots",
                                      [book |-> book, result |-> "Ok"], FALSE, NoOrder))
    /\ UNCHANGED <<pstats, last, twin, engine>>

\* order_book.lock().unwrap() in the else branch of start_live_feed returns
DisplayAcquire ==
    /\ shared.pc["feed"] = "display_lock"
    /\ shared.lock = NoHolder
    /\ shared' = [shared EXCEPT !.lock = "feed", !.pc["feed"] = "display"]
    /\ UNCHANGED <<book, pstats, last, twin, engine>>

\* display_live_orderbook has read the book; drop(order_book_guard)
Display ==
    /\ shared.pc["feed"] = "display"
    /\ shared' = [shared EXCEPT !.lock = DropGuard("feed"), !.pc["feed"] = "tick"]
    /\ UNCHANGED <<book, pstats, last, twin, engine>>

\* the caller drops the value the latest call returned; the book and the
\* processor are then between two calls
Return ==
    /\ ~Idle
    /\ last' = NoCall
    /\ UNCHANGED <<book, pstats, twin, engine, shared>>

\* the book used through its own interface
Next == AddOrder \/ CancelOrder \/ ModifyOrder \/ ClearAllOrders \/ Return

Spec == Init /\ [][Next]_vars

\* the book used through its own interface and through the processor
NextFeed == AddOrder \/ CancelOrder \/ ModifyOrder \/ ClearAllOrders \/ Process \/ Return

SpecFeed == Init /\ [][NextFeed]_vars

\* the book used through its own interface and through the processor,
\* queries included
NextQuery == NextFeed \/ GetOrderBookSnapshot

SpecQuery == Init /\ [][NextQuery]_vars

\* the book fed in batches
NextBatch == ProcessBatchBegins \/ ProcessBatchMessage \/ Return

SpecBatch == Init /\ [][NextBatch]_vars

\* two pairs fed the same stream
NextTwin == FeedTwin \/ Return

SpecTwin == Init /\ [][NextTwin]_vars

\* the registry of books used through its own interface
NextEngine == EngineAddOrder \/ EngineCancelOrder \/ EngineModifyOrder \/ Return

SpecEngine == Init /\ [][NextEngine]_vars

\* two tasks that share one book behind its mutex
NextShared ==
    \/ FeedTick \/ FeedFetchFails \/ FeedFetches \/ CallerCalls
    \/ DisplayAcquire \/ Display
    \/ Acquire
    \/ \E t \in Tasks : CheckSequence(t)
    \/ \E t \in Tasks : DispatchMessage(t)
    \/ \E t \in Tasks : SnapshotStep(t)

SpecShared == Init /\ [][NextShared]_vars

\* the book used through the processor only
NextFeedOnly == Feed \/ Return

SpecFeedOnly == Init /\ [][NextFeedOnly]_vars

(***************************************************************************)
(* Vocabulary of the properties.                                           *)
(***************************************************************************)
RestingTypes == {"Limit", "GoodTillCancel", "GoodForDay"}

\* the latest call handed an order to add_order, directly or as the re-add
\* of modify_order
AddCall(c) == c.op \in {"add_order", "modify_order"} /\ c.order # NoOrder

\* the ladder an incoming order is matched against, and the one it rests in
Opposite(b, side) == IF side = "Buy" THEN b.asks ELSE b.bids
SameSide(b, side) == IF side = "Buy" THEN b.bids ELSE b.asks

\* the identifier of the maker of a trade made for an incoming order
MakerId(trade, side) == IF side = "Buy" THEN trade.sell_order_id ELSE trade.buy_order_id

\* the orders queued in a ladder, as a set
Queued(ladder) == UNION {{ladder[p].orders[i] : i \in 1..Len(ladder[p].orders)} : p \in DOMAIN ladder}
QueuedIds(ladder) == {o.id : o \in Queued(ladder)}

\* the queues of a ladder laid end to end, best price first: ascending for
\* asks (the makers of a Buy), descending for bids (the makers of a Sell)
RECURSIVE PriorityOrder(_, _)
PriorityOrder(ladder, side) ==
    IF DOMAIN ladder = {} THEN <<>>
    ELSE LET best == IF side = "Buy" THEN MinOf(DOMAIN ladder) ELSE MaxOf(DOMAIN ladder)
         IN ladder[best].orders \o PriorityOrder(MapRemove(ladder, best), side)

(***************************************************************************)
(* C1: every trade that add_order produces, the re-add of modify_order     *)
(* included, executes at the price of the resting maker: the maker was     *)
(* queued in the opposite level at the trade price, and that price is      *)
(* <= the limit of an incoming Buy and >= the limit of an incoming Sell    *)
(* unless the incoming order is a Market order.                            *)
(***************************************************************************)
C1_Step ==
    AddCall(last') =>
        \A i \in 1..Len(last'.trades) :
            LET t == last'.trades[i]
                o == last'.order
                makers == Opposite(book, o.side)
            IN /\ t.price \in DOMAIN makers
               /\ \E k \in 1..Len(makers[t.price].orders) :
                     /\ makers[t.price].orders[k].id = MakerId(t, o.side)
                     /\ makers[t.price].orders[k].price = t.price
               /\ \/ o.order_type = "Market"
                  \/ IF o.side = "Buy" THEN t.price <= o.price ELSE t.price >= o.price

C1_TradeAtMakerPrice == [][C1_Step]_vars

\* a limit order was filled at a price better than its own limit
C1_Witness ==
    /\ AddCall(last)
    /\ last.order.order_type # "Market"
    /\ \E i \in 1..Len(last.trades) : last.trades[i].price # last.order.price


(***************************************************************************)
(* C2: price-time priority.  The trades one add_order returns follow the   *)
(* priority order of the makers as they rested before the call: best price *)
(* first and, within a price, first come first served; a maker is reached  *)
(* only when every maker before it has been filled completely.  Arrival    *)
(* order is queue order: an order that comes to rest is put behind the     *)
(* orders already queued at its price, whose order does not change.        *)
(***************************************************************************)
C2_Step ==
    AddCall(last') =>
        LET o == last'.order
            T == last'.trades
            M == PriorityOrder(Opposite(book, o.side), o.side)
            NotCancelled(x) == x.id # last'.order_id
            before == IF o.price \in DOMAIN SameSide(book, o.side)
                      THEN SelectSeq(SameSide(book, o.side)[o.price].orders, NotCancelled)
                      ELSE <<>>
        IN /\ Len(T) <= Len(M)
           /\ \A i \in 1..Len(T) :
                 /\ MakerId(T[i], o.side) = M[i].id
                 /\ i < Len(T) => T[i].quantity = M[i].remaining_quantity
           /\ (last'.result = "Ok" /\ o.id \in QueuedIds(SameSide(book', o.side))) =>
                 LET after == SameSide(book', o.side)[o.price].orders
                 IN /\ after[Len(after)].id = o.id
                    /\ SubSeq(after, 1, Len(after) - 1) = before

C2_PriceTimePriority == [][C2_Step]_vars

\* one incoming order traded with two makers queued at the same price
C2_Witness ==
    /\ AddCall(last)
    /\ Len(last.trades) >= 2
    /\ last.trades[1].price = last.trades[2].price
    /\ MakerId(last.trades[1], last.order.side) # MakerId(last.trades[2], last.order.side)

(***************************************************************************)
(* C3: the book is never crossed at rest: whenever both sides have a       *)
(* level, the best bid is below the best ask.                              *)
(***************************************************************************)
C3_NeverCrossed ==
    (get_best_bid(book) # NoPrice /\ get_best_ask(book) # NoPrice)
        => get_best_bid(book) < get_best_ask(book)

\* a snapshot message was applied and left both sides populated
C3_Witness ==
    /\ last.op = "process" /\ last.kind = "BookSnapshot" /\ last.result = "Ok"
    /\ get_best_bid(book) # NoPrice
    /\ get_best_ask(book) # NoPrice

(***************************************************************************)
(* C4: the cached total_quantity of every level is the sum of the          *)
(* remaining quantities of the orders queued in it.                        *)
(***************************************************************************)
LevelSum(level) == SumSeq([i \in 1..Len(level.orders) |-> level.orders[i].remaining_quantity])

C4_LevelTotals ==
    /\ \A p \in DOMAIN book.bids : book.bids[p].total_quantity = LevelSum(book.bids[p])
    /\ \A p \in DOMAIN book.asks : book.asks[p].total_quantity = LevelSum(book.asks[p])

\* a level holds a partially filled order with another order queued behind it
C4_Witness ==
    \E ladder \in {book.bids, book.asks} : \E p \in DOMAIN ladder :
        /\ Len(ladder[p].orders) >= 2
        /\ ladder[p].orders[1].remaining_quantity < ladder[p].orders[1].quantity
        /\ ladder[p].total_quantity > 0


(***************************************************************************)
(* C5: the index holds exactly the identifiers of the resting orders: an   *)
(* identifier is indexed iff an order with it is queued in exactly one     *)
(* level, on the side and at the price of the indexed order, so size() is  *)
(* the number of orders queued in all levels.                              *)
(***************************************************************************)
\* the places (side, price, position) where an order with this id is queued
PlacesIn(ladder, side, id) ==
    UNION {{<<side, p, i>> : i \in {j \in 1..Len(ladder[p].orders) :
                                       ladder[p].orders[j].id = id}} : p \in DOMAIN ladder}
Places(b, id) == PlacesIn(b.bids, "Buy", id) \cup PlacesIn(b.asks, "Sell", id)

QueuedCount(b) ==
    SumSet([p \in DOMAIN b.bids |-> Len(b.bids[p].orders)], DOMAIN b.bids)
    + SumSet([p \in DOMAIN b.asks |-> Len(b.asks[p].orders)], DOMAIN b.asks)

C5_IndexIsResting ==
    /\ DOMAIN book.orders = QueuedIds(book.bids) \cup QueuedIds(book.asks)
    /\ \A id \in DOMAIN book.orders :
          /\ Cardinality(Places(book, id)) = 1
          /\ \A x \in Places(book, id) :
                x[1] = book.orders[id].side /\ x[2] = book.orders[id].price
    /\ size(book) = QueuedCount(book)

(***************************************************************************)
(* C6: no empty price level is retained: every level of either ladder      *)
(* holds at least one order.                                               *)
(***************************************************************************)
C6_NoEmptyLevel ==
    /\ \A p \in DOMAIN book.bids : book.bids[p].orders # <<>>
    /\ \A p \in DOMAIN book.asks : book.asks[p].orders # <<>>

\* the only order ever added was cancelled, and its level went with it
C6_Witness ==
    /\ last.op = "cancel_order" /\ last.result = "Ok"
    /\ book.stats.new_orders = 1 /\ book.stats.cancellations = 1
    /\ DOMAIN book.bids = {} /\ DOMAIN book.asks = {}

(***************************************************************************)
(* C7: quantity conservation of add_order.  As claimed: for a resting type *)
(* (Limit, GoodTillCancel, GoodForDay) the quantities of the returned      *)
(* trades plus the quantity resting under the order's identifier make the  *)
(* order's original quantity; for Market, ImmediateOrCancel and FillOrKill *)
(* the trades make at most the original quantity and nothing rests.        *)
(* modify_order hands add_order a replacement whose remaining_quantity     *)
(* differs from its original quantity, and there the sum is the remaining  *)
(* quantity the order entered with.                                        *)
(***************************************************************************)
RestingQuantity(b, id) ==
    LET qty(ladder) ==
            SumSet([p \in DOMAIN ladder |->
                       SumSeq([i \in 1..Len(ladder[p].orders) |->
                                  IF ladder[p].orders[i].id = id
                                  THEN ladder[p].orders[i].remaining_quantity ELSE 0])],
                   DOMAIN ladder)
    IN qty(b.bids) + qty(b.asks)

\* what an add_order call conserves, `entered` being the quantity it is held to
Conserves(c, b, entered) ==
    LET traded == TradedQuantity(c.trades)
    IN IF c.order.order_type \in RestingTypes
       THEN traded + RestingQuantity(b, c.order.id) = entered
       ELSE /\ traded <= entered
            /\ RestingQuantity(b, c.order.id) = 0
            /\ c.order.id \notin QueuedIds(b.bids) \cup QueuedIds(b.asks)

Crosses(side, limit, p) == IF side = "Buy" THEN p <= limit ELSE p >= limit

Available(b, o) ==
    LET makers == Opposite(b, o.side)
        eligible == {p \in DOMAIN makers : Crosses(o.side, o.price, p)}
    IN SumSet([p \in DOMAIN makers |-> makers[p].total_quantity], eligible)

\* the order passes the validation of add_order on this book
Accepted(b, o) ==
    /\ o.id \notin DOMAIN b.orders
    /\ o.price # 0 \/ o.order_type = "Market"
    /\ o.quantity # 0

C8_Step ==
    (last'.op = "add_order" /\ last'.order.order_type = "FillOrKill"
        /\ Accepted(book, last'.order)) =>
        LET o == last'.order
        IN /\ last'.result = "Ok"
           /\ IF Available(book, o) < o.quantity
              THEN /\ last'.trades = <<>>
                   /\ book'.bids = book.bids
                   /\ book'.asks = book.asks
                   /\ book'.orders = book.orders
              ELSE TradedQuantity(last'.trades) = o.quantity

C8_FillOrKill == [][C8_Step]_vars

\* a FillOrKill order took exactly everything the opposite side offered, from
\* more than one maker
C8_Witness ==
    /\ last.op = "add_order" /\ last.order.order_type = "FillOrKill"
    /\ Len(last.trades) >= 2
    /\ TradedQuantity(last.trades) = last.order.quantity
    /\ DOMAIN Opposite(book, last.order.side) = {}

(***************************************************************************)
(* C9: Market, ImmediateOrCancel and FillOrKill orders never rest: after   *)
(* add_order the identifier is in no level and not in the index, and the   *)
(* ladder of the order's own side is as before.  An ImmediateOrCancel with *)
(* less available than it asks for trades what is available; a Market      *)
(* order against an empty opposite side trades nothing and changes no      *)
(* ladder.                                                                 *)
(***************************************************************************)
C9_Step ==
    (last'.op = "add_order"
        /\ last'.order.order_type \in {"Market", "ImmediateOrCancel", "FillOrKill"}
        /\ last'.order.id \notin DOMAIN book.orders) =>
        LET o == last'.order
        IN /\ o.id \notin DOMAIN book'.orders
           /\ o.id \notin QueuedIds(book'.bids) \cup QueuedIds(book'.asks)
           /\ SameSide(book', o.side) = SameSide(book, o.side)
           /\ (o.order_type = "ImmediateOrCancel" /\ Accepted(book, o)
                  /\ Available(book, o) < o.quantity) =>
                 /\ TradedQuantity(last'.trades) = Available(book, o)
                 /\ \A p \in DOMAIN Opposite(book', o.side) : ~Crosses(o.side, o.price, p)
           /\ (o.order_type = "Market" /\ DOMAIN Opposite(book, o.side) = {}) =>
                 /\ last'.trades = <<>>
                 /\ book'.bids = book.bids
                 /\ book'.asks = book.asks

C9_NeverRests == [][C9_Step]_vars

\* an ImmediateOrCancel order was filled in part
C9_Witness ==
    /\ last.op = "add_order" /\ last.order.order_type = "ImmediateOrCancel"
    /\ TradedQuantity(last.trades) > 0
    /\ TradedQuantity(last.trades) < last.order.quantity

(***************************************************************************)
(* C10: add_order fails with OrderAlreadyExists when the identifier is     *)
(* indexed, with InvalidPrice when the price is 0 and the type is not      *)
(* Market, with InvalidQuantity when the original quantity is 0 (checked   *)
(* in that order); a failing call returns no trade and leaves the ladders, *)
(* the index and the statistics counters as they were.                     *)
(***************************************************************************)
C10_Step ==
    last'.op = "add_order" =>
        LET o == last'.order
            exists == o.id \in DOMAIN book.orders
            badPrice == o.price = 0 /\ o.order_type # "Market"
            badQuantity == o.quantity = 0
        IN /\ exists => last'.result = "OrderAlreadyExists"
           /\ (~exists /\ badPrice) => last'.result = "InvalidPrice"
           /\ (~exists /\ ~badPrice /\ badQuantity) => last'.result = "InvalidQuantity"
           /\ (exists \/ badPrice \/ badQuantity) <=> last'.result # "Ok"
           /\ last'.result # "Ok" =>
                 /\ last'.trades = <<>>
                 /\ book' = book

C10_AddOrderErrors == [][C10_Step]_vars

\* an order that could have traded was refused for its quantity of 0
C10_Witness ==
    /\ last.op = "add_order" /\ last.result = "InvalidQuantity"
    /\ last.order.order_type = "Market"
    /\ DOMAIN Opposite(book, last.order.side) # {}
    /\ book.stats.new_orders = 1

(***************************************************************************)
(* C11: cancel_order on an indexed order that rests in a level takes       *)
(* exactly that order out of its level and out of the index, lowers the    *)
(* level's total_quantity by the remaining quantity the order has in the   *)
(* queue, deletes the level when it was the only order, leaves every other *)
(* level, the other ladder and the sequence of the other orders of the     *)
(* level as they were, returns Ok and counts one cancellation.             *)
(***************************************************************************)
\* the ladder as cancel_order must leave it when it takes the order at
\* position i of the level at price p
WithoutOrder(ladder, p, i) ==
    IF Len(ladder[p].orders) = 1 THEN MapRemove(ladder, p)
    ELSE MapPut(ladder, p,
                [ladder[p] EXCEPT !.orders = SeqRemoveAt(@, i),
                                  !.total_quantity = @ - ladder[p].orders[i].remaining_quantity])

C11_Step ==
    (last'.op = "cancel_order" /\ last'.order_id \in DOMAIN book.orders
        /\ Places(book, last'.order_id) # {}) =>
        LET id == last'.order_id
            at == CHOOSE x \in Places(book, id) : TRUE
        IN /\ last'.result = "Ok"
           /\ book'.orders = MapRemove(book.orders, id)
           /\ book'.bids = IF at[1] = "Buy" THEN WithoutOrder(book.bids, at[2], at[3])
                           ELSE book.bids
           /\ book'.asks = IF at[1] = "Sell" THEN WithoutOrder(book.asks, at[2], at[3])
                           ELSE book.asks
           /\ book'.stats = [book.stats EXCEPT !.cancellations = @ + 1]
           /\ book'.last_sequence_number = book.last_sequence_number

C11_CancelRemovesTheOrder == [][C11_Step]_vars

\* two orders were added and never traded, one of them was cancelled and the
\* other is all that is left
C11_Witness ==
    /\ last.op = "cancel_order" /\ last.result = "Ok"
    /\ book.stats.new_orders = 2 /\ book.stats.cancellations = 1
    /\ book.stats.modifications = 0
    /\ size(book) = 1 /\ QueuedCount(book) = 1
    /\ \A o \in Queued(book.bids) \cup Queued(book.asks) : o.remaining_quantity = o.quantity

(***************************************************************************)
(* C12: cancel_order for an identifier that is not in the index fails with *)
(* OrderNotFound and leaves the ladders, the index and the statistics as   *)
(* they were: cancellations is not incremented.                            *)
(***************************************************************************)
C12_Step ==
    (last'.op = "cancel_order" /\ last'.order_id \notin DOMAIN book.orders) =>
        /\ last'.result = "OrderNotFound"
        /\ book' = book

C12_CancelUnknown == [][C12_Step]_vars

\* an unknown identifier was cancelled while other orders were resting
C12_Witness ==
    /\ last.op = "cancel_order" /\ last.result = "OrderNotFound"
    /\ QueuedCount(book) > 0
    /\ book.stats.cancellations = 0

(***************************************************************************)
(* C13: modify_order forfeits time priority.  After modify_order on an     *)
(* indexed order that rests in a level, the old identifier is neither in   *)
(* the index nor in a level, and the replacement carries an identifier the *)
(* book did not know.  A replacement that comes to rest is the last of its *)
(* level, behind the orders that were resting at that price, whose         *)
(* sequence is unchanged; and a replacement with the price and the         *)
(* quantity of the indexed order does come to rest.                        *)
(***************************************************************************)
C13_Step ==
    (last'.op = "modify_order" /\ last'.order_id \in DOMAIN book.orders
        /\ Places(book, last'.order_id) # {}) =>
        LET id == last'.order_id
            o == last'.order
            NotOld(x) == x.id # id
            before == IF o.price \in DOMAIN SameSide(book, o.side)
                      THEN SelectSeq(SameSide(book, o.side)[o.price].orders, NotOld)
                      ELSE <<>>
            rests == o.id \in QueuedIds(SameSide(book', o.side))
        IN /\ id \notin DOMAIN book'.orders
           /\ Places(book', id) = {}
           /\ o.id # id
           /\ o.id \notin DOMAIN book.orders
           /\ rests =>
                 LET after == SameSide(book', o.side)[o.price].orders
                 IN /\ last'.result = "Ok"
                    /\ o.id \in DOMAIN book'.orders
                    /\ after[Len(after)].id = o.id
                    /\ SubSeq(after, 1, Len(after) - 1) = before
           /\ (o.price = book.orders[id].price
                  /\ o.remaining_quantity = book.orders[id].remaining_quantity) => rests

C13_ModifyForfeitsPriority == [][C13_Step]_vars

\* the replacement rests behind another order at its price
C13_Witness ==
    /\ last.op = "modify_order" /\ last.result = "Ok"
    /\ last.order_id \notin DOMAIN book.orders
    /\ \E p \in DOMAIN SameSide(book, last.order.side) :
          LET q == SameSide(book, last.order.side)[p].orders
          IN Len(q) >= 2 /\ q[Len(q)].id = last.order.id

(***************************************************************************)
(* C14: modify_order keeps what is not supplied.  For every indexed order  *)
(* that rests in a level: with new_price absent the replacement that       *)
(* modify_order hands to add_order has the price of the resting order, and *)
(* with new_quantity absent it enters with the remaining quantity the      *)
(* resting order has in its queue at the time of the call.                 *)
(***************************************************************************)
\* the order queued under this identifier
RestingOrder(b, id) ==
    LET at == CHOOSE x \in Places(b, id) : TRUE
    IN SameSide(b, at[1])[at[2]].orders[at[3]]

C14_KeepsUnsupplied ==
    \A id \in DOMAIN book.orders :
        Places(book, id) # {} =>
            \A new_price \in Prices \cup {None}, new_quantity \in Quantities \cup {None} :
                LET m == modify_order(book, id, new_price, new_quantity,
                                      FreshId(DOMAIN book.orders))
                IN /\ new_price = None => m.order.price = RestingOrder(book, id).price
                   /\ new_quantity = None =>
                         m.order.remaining_quantity =
                             RestingOrder(book, id).remaining_quantity

(***************************************************************************)
(* C15: modify_order(id, p, q) is cancel + re-add.  For every indexed      *)
(* order that rests in a level and every p and q, modify_order returns the *)
(* result and the trades, and leaves the ladders, that cancel_order(id)    *)
(* followed by add_order of an order made by Order::new with the same side *)
(* and type, price p (or the old price) and quantity q (or the old         *)
(* remaining quantity) returns and leaves.  The ladders are compared by    *)
(* the identifiers and the remaining quantities of their queues and by the *)
(* totals of their levels.                                                 *)
(***************************************************************************)
\* what a ladder shows of its levels: who is queued, for how much
LadderView(ladder) ==
    [p \in DOMAIN ladder |->
        [total_quantity |-> ladder[p].total_quantity,
         orders |-> [i \in 1..Len(ladder[p].orders) |->
                        <<ladder[p].orders[i].id, ladder[p].orders[i].remaining_quantity>>]]]

\* cancel_order(id) followed by add_order of a newly created order
CancelThenAdd(b, id, new_price, new_quantity, new_id) ==
    add_order(cancel_order(b, id).book,
              OrderNew(new_id, RestingOrder(b, id).side, RestingOrder(b, id).order_type,
                       IF new_price # None THEN new_price ELSE RestingOrder(b, id).price,
                       IF new_quantity # None THEN new_quantity
                       ELSE RestingOrder(b, id).remaining_quantity))

C15_ModifyIsCancelThenAdd ==
    \A id \in DOMAIN book.orders :
        Places(book, id) # {} =>
            \A new_price \in Prices \cup {None}, new_quantity \in Quantities \cup {None} :
                LET m == modify_order(book, id, new_price, new_quantity,
                                      FreshId(DOMAIN book.orders))
                    a == CancelThenAdd(book, id, new_price, new_quantity,
                                       FreshId(DOMAIN book.orders))
                IN /\ m.result = a.result
                   /\ m.trades = a.trades
                   /\ LadderView(m.book.bids) = LadderView(a.book.bids)
                   /\ LadderView(m.book.asks) = LadderView(a.book.asks)

(***************************************************************************)
(* C16: every order queued in a level satisfies the Order invariants:      *)
(* 0 <= remaining_quantity <= quantity, price > 0, and its type is not     *)
(* Market.  Replacements created by modify_order are included.             *)
(***************************************************************************)
C16_OrderInvariants ==
    \A o \in Queued(book.bids) \cup Queued(book.asks) :
        /\ 0 <= o.remaining_quantity
        /\ o.remaining_quantity <= o.quantity
        /\ o.price > 0
        /\ o.order_type # "Market"

(***************************************************************************)
(* C17: process fails with SequenceGap{expected = last + 1, actual =       *)
(* sequence_number} exactly when the sequence number of the message is     *)
(* <= book.last_sequence_number: repeated and lower numbers fail, numbers  *)
(* that skip ahead are accepted.  On that failure sequence_gaps grows by   *)
(* one, no other counter moves, and the book, last_sequence_number         *)
(* included, is unchanged.                                                 *)
(***************************************************************************)
C17_Step ==
    last'.op = "process" =>
        LET message == last'.message
        IN /\ last'.result = "SequenceGap"
                 <=> message.sequence_number <= book.last_sequence_number
           /\ last'.result = "SequenceGap" =>
                 /\ last'.gap = SequenceGap(book.last_sequence_number + 1,
                                            message.sequence_number)
                 /\ pstats' = [pstats EXCEPT !.sequence_gaps = @ + 1]
                 /\ book' = book
                 /\ last'.trades = <<>>
           /\ last'.result # "SequenceGap" => pstats'.sequence_gaps = pstats.sequence_gaps

C17_SequenceGap == [][C17_Step]_vars

\* a message whose number is lower than one accepted before it was refused
C17_Witness ==
    /\ last.op = "process" /\ last.result = "SequenceGap"
    /\ last.gap.actual + 1 < last.gap.expected
    /\ last.gap.actual > 0
    /\ pstats.sequence_gaps = 1

(***************************************************************************)
(* C18: book.last_sequence_number never decreases.  A process call whose   *)
(* message passes the sequence check leaves it at the number of that       *)
(* message, whether the dispatched operation then succeeds or fails and    *)
(* also when the message is a snapshot; a call that fails the check and    *)
(* every other step leave it as it was.  So it is the largest number among *)
(* the messages that have passed the check, and 0 before the first.        *)
(***************************************************************************)
C18_Step ==
    /\ book'.last_sequence_number >= book.last_sequence_number
    /\ last'.op = "process" =>
          book'.last_sequence_number =
              IF last'.message.sequence_number > book.last_sequence_number
              THEN last'.message.sequence_number
              ELSE book.last_sequence_number
    /\ last'.op # "process" => book'.last_sequence_number = book.last_sequence_number

C18_SequenceMonotone == [][C18_Step]_vars

\* a snapshot passed the sequence check and failed in the rebuild, and the
\* sequence number advanced to the number of that snapshot
C18_Witness ==
    /\ last.op = "process" /\ last.kind = "BookSnapshot"
    /\ last.result \notin {"Ok", "SequenceGap"}
    /\ book.last_sequence_number = last.message.sequence_number
    /\ book.last_sequence_number = MaxFeedSeq
    /\ pstats.messages_processed = 1

(***************************************************************************)
(* C19: after process succeeds on a BookSnapshot message the book holds    *)
(* exactly the levels of the message: for each listed bid and each listed  *)
(* ask there is a level at the stated price whose total quantity is the    *)
(* stated quantity and which holds exactly one resting order, there is no  *)
(* other level, and no other order is indexed.                             *)
(***************************************************************************)
\* the ladder holds one single-order level per listed level, and no other
HoldsExactly(ladder, levels) ==
    /\ DOMAIN ladder = {levels[i].price : i \in 1..Len(levels)}
    /\ \A i \in 1..Len(levels) :
          /\ levels[i].price \in DOMAIN ladder
          /\ ladder[levels[i].price].total_quantity = levels[i].quantity
          /\ Len(ladder[levels[i].price].orders) = 1

C19_SnapshotIsTheBook ==
    (last.op = "process" /\ last.kind = "BookSnapshot" /\ last.result = "Ok") =>
        /\ HoldsExactly(book.bids, last.message.bids)
        /\ HoldsExactly(book.asks, last.message.asks)
        /\ size(book) = Len(last.message.bids) + Len(last.message.asks)

(***************************************************************************)
(* C20: the BookSnapshot rebuild is atomic: when process returns an error  *)
(* for a BookSnapshot message, the ladders and the index are what they     *)
(* were before the message.                                                *)
(***************************************************************************)
C20_Step ==
    (last'.op = "process" /\ last'.kind = "BookSnapshot" /\ last'.result # "Ok") =>
        /\ book'.bids = book.bids
        /\ book'.asks = book.asks
        /\ book'.orders = book.orders

C20_SnapshotAtomic == [][C20_Step]_vars

(***************************************************************************)
(* C21: a BookSnapshot applied twice is applied once.  Whenever a snapshot *)
(* message has passed the sequence check, from whatever book, processing   *)
(* a message with the same levels and the next sequence number returns the *)
(* same result and leaves the ladders it found: the same prices, the same  *)
(* level totals and the same order counts.                                 *)
(***************************************************************************)
\* what a ladder shows to a reader: per price, the total and the order count
LevelInfoView(ladder) ==
    [p \in DOMAIN ladder |->
        [quantity |-> ladder[p].total_quantity, order_count |-> Len(ladder[p].orders)]]

\* the latest message again, under the next sequence number
Again(c) == [c.message EXCEPT !.sequence_number = @ + 1]

C21_SnapshotIdempotent ==
    (last.op = "process" /\ last.kind = "BookSnapshot" /\ last.result # "SequenceGap") =>
        LET second == process_market_data(book, pstats, Again(last))
        IN /\ second.result = last.result
           /\ LevelInfoView(second.book.bids) = LevelInfoView(book.bids)
           /\ LevelInfoView(second.book.asks) = LevelInfoView(book.asks)

\* a snapshot with levels on both sides replaced a book built from orders
C21_Witness ==
    /\ last.op = "process" /\ last.kind = "BookSnapshot" /\ last.result = "Ok"
    /\ pstats.new_orders >= 1 /\ pstats.snapshots = 1
    /\ DOMAIN book.bids # {} /\ DOMAIN book.asks # {}

(***************************************************************************)
(* C22: round trip.  When add_order of a Limit, GoodTillCancel or          *)
(* GoodForDay order returns Ok with no trade, cancel_order of its          *)
(* identifier succeeds and gives back the book as it was before the add:   *)
(* the same set of levels with the same totals and order counts, and the   *)
(* same get_best_bid and get_best_ask.                                     *)
(***************************************************************************)
C22_Step ==
    (last'.op = "add_order" /\ last'.result = "Ok" /\ last'.trades = <<>>
        /\ last'.order.order_type \in RestingTypes) =>
        LET c == cancel_order(book', last'.order.id)
        IN /\ c.result = "Ok"
           /\ LevelInfoView(c.book.bids) = LevelInfoView(book.bids)
           /\ LevelInfoView(c.book.asks) = LevelInfoView(book.asks)
           /\ get_best_bid(c.book) = get_best_bid(book)
           /\ get_best_ask(c.book) = get_best_ask(book)

C22_AddThenCancel == [][C22_Step]_vars

\* an order came to rest behind another one, at a price that is not the best
C22_Witness ==
    /\ last.op = "add_order" /\ last.result = "Ok" /\ last.trades = <<>>
    /\ last.order.order_type \in RestingTypes
    /\ Len(SameSide(book, last.order.side)[last.order.price].orders) >= 2
    /\ last.order.price \notin {get_best_bid(book), get_best_ask(book)}

(***************************************************************************)
(* C24: a ModifyOrder message whose new_price is absent is processed with  *)
(* price 0: when it passes the sequence check and names an indexed order,  *)
(* the replacement handed to add_order has price 0 and process fails with  *)
(* InvalidPrice; the old price is not kept.                                *)
(***************************************************************************)
C24_Step ==
    (last'.op = "process" /\ last'.kind = "ModifyOrder"
        /\ last'.message.new_price = None
        /\ last'.message.sequence_number > book.last_sequence_number
        /\ last'.message.order_id \in DOMAIN book.orders) =>
        /\ last'.result = "InvalidPrice"
        /\ last'.order.price = 0
        /\ book.orders[last'.message.order_id].price # 0
        /\ pstats'.modifications = pstats.modifications

C24_AbsentPriceIsZero == [][C24_Step]_vars

\* a modify message without a price named an order that rests in a level
C24_Witness ==
    /\ last.op = "process" /\ last.kind = "ModifyOrder"
    /\ last.message.new_price = None /\ last.message.new_quantity # None
    /\ last.result = "InvalidPrice"
    /\ book.stats.cancellations = 1

(***************************************************************************)
(* C29: a Trade message that passes the sequence check is informational:   *)
(* process returns Ok, both ladders, the index and the statistics of the   *)
(* book are as before, and the trades counter of the processor grows by    *)
(* one.                                                                    *)
(***************************************************************************)
C29_Step ==
    (last'.op = "process" /\ last'.kind = "Trade"
        /\ last'.message.sequence_number > book.last_sequence_number) =>
        /\ last'.result = "Ok"
        /\ book'.bids = book.bids
        /\ book'.asks = book.asks
        /\ book'.orders = book.orders
        /\ book'.stats = book.stats
        /\ pstats'.trades = pstats.trades + 1

C29_TradeIsInformational == [][C29_Step]_vars

\* a Trade message was processed while orders were resting on both sides
C29_Witness ==
    /\ last.op = "process" /\ last.kind = "Trade" /\ last.result = "Ok"
    /\ pstats.trades = 1
    /\ DOMAIN book.bids # {} /\ DOMAIN book.asks # {}

(***************************************************************************)
(* C30: the counters of the processor.  A process call that returns Ok     *)
(* adds one to messages_processed and one to the counter of the variant    *)
(* of its message (new_orders, cancellations, modifications, trades,       *)
(* snapshots) and to no other of them; a failing call adds to none of      *)
(* these.  So messages_processed is always the sum of the five.            *)
(***************************************************************************)
Variants == {"new_orders", "cancellations", "modifications", "trades", "snapshots"}

CounterOf(kind) ==
    CASE kind = "NewOrder" -> "new_orders"
      [] kind = "CancelOrder" -> "cancellations"
      [] kind = "ModifyOrder" -> "modifications"
      [] kind = "Trade" -> "trades"
      [] kind = "BookSnapshot" -> "snapshots"

C30_Step ==
    last'.op = "process" =>
        IF last'.result = "Ok"
        THEN /\ pstats'.messages_processed = pstats.messages_processed + 1
             /\ \A v \in Variants :
                   pstats'[v] = pstats[v] + (IF v = CounterOf(last'.kind) THEN 1 ELSE 0)
        ELSE /\ pstats'.messages_processed = pstats.messages_processed
             /\ \A v \in Variants : pstats'[v] = pstats[v]

C30_Sum ==
    pstats.messages_processed =
        pstats.new_orders + pstats.cancellations + pstats.modifications
        + pstats.trades + pstats.snapshots

C30_MessagesProcessed == []C30_Sum /\ [][C30_Step]_vars

\* three messages of three variants were counted after one had failed
C30_Witness ==
    /\ last.op = "process" /\ last.result = "Ok"
    /\ pstats.messages_processed = 3
    /\ pstats.new_orders = 1 /\ pstats.cancellations = 1 /\ pstats.snapshots = 1
    /\ book.last_sequence_number = MaxFeedSeq
    /\ pstats.sequence_gaps = 1

(***************************************************************************)
(* C26: get_order_book_snapshot(max_levels) changes no state and returns   *)
(* min(max_levels, number of bid levels) bid entries in strictly           *)
(* descending price order starting at get_best_bid(), and                  *)
(* min(max_levels, number of ask levels) ask entries in strictly ascending *)
(* price order starting at get_best_ask(); each entry carries the total    *)
(* quantity and the order count of the level at its price; the snapshot    *)
(* carries last_sequence_number.  get_best_bid and get_best_ask are absent *)
(* exactly when their side has no level.                                   *)
(***************************************************************************)
\* the entries are the levels of the ladder at their prices
EntriesOf(entries, ladder) ==
    \A i \in 1..Len(entries) :
        /\ entries[i].price \in DOMAIN ladder
        /\ entries[i].quantity = ladder[entries[i].price].total_quantity
        /\ entries[i].order_count = Len(ladder[entries[i].price].orders)

C26_Step ==
    last'.op = "get_order_book_snapshot" =>
        LET s == last'.snapshot
            n == last'.max_levels
        IN /\ book' = book /\ pstats' = pstats
           /\ Len(s.bids) = MinQuantity(n, Cardinality(DOMAIN book.bids))
           /\ Len(s.asks) = MinQuantity(n, Cardinality(DOMAIN book.asks))
           /\ EntriesOf(s.bids, book.bids)
           /\ EntriesOf(s.asks, book.asks)
           /\ \A i \in 1..(Len(s.bids) - 1) : s.bids[i].price > s.bids[i + 1].price
           /\ \A i \in 1..(Len(s.asks) - 1) : s.asks[i].price < s.asks[i + 1].price
           /\ s.bids # <<>> => s.bids[1].price = get_best_bid(book)
           /\ s.asks # <<>> => s.asks[1].price = get_best_ask(book)
           /\ s.sequence_number = book.last_sequence_number
           /\ get_best_bid(book) = NoPrice <=> DOMAIN book.bids = {}
           /\ get_best_ask(book) = NoPrice <=> DOMAIN book.asks = {}

C26_SnapshotQuery == [][C26_Step]_vars

\* one level of two was asked for, on a book with two levels on a side
C26_Witness ==
    /\ last.op = "get_order_book_snapshot" /\ last.max_levels = 1
    /\ Len(last.snapshot.bids) = 1
    /\ Cardinality(DOMAIN book.bids) = 2
    /\ last.snapshot.bids[1].order_count = 2
    /\ last.snapshot.sequence_number > 0

(***************************************************************************)
(* C27: no arithmetic of the core leaves its type on valid input.  The     *)
(* quantities of the model range over the whole Quantity type, scaled to   *)
(* 0..MaxQty: an order can carry any quantity up to QuantityMAX.  With     *)
(* valid orders (quantity > 0, price > 0 or Market) the total_quantity     *)
(* that PriceLevel::add_order adds up stays within the type, and so does   *)
(* the sum of level totals that the FillOrKill check adds up.              *)
(***************************************************************************)
\* Quantity::MAX, scaled
QuantityMAX == MaxQty

\* the sum over all levels of a side that get_available_quantity_for_order
\* can be asked to add up
SideTotal(ladder) == SumSet([p \in DOMAIN ladder |-> ladder[p].total_quantity], DOMAIN ladder)

C27_NoOverflow ==
    /\ \A p \in DOMAIN book.bids : book.bids[p].total_quantity <= QuantityMAX
    /\ \A p \in DOMAIN book.asks : book.asks[p].total_quantity <= QuantityMAX
    /\ SideTotal(book.bids) <= QuantityMAX
    /\ SideTotal(book.asks) <= QuantityMAX

(***************************************************************************)
(* C23: process_market_data_batch applies process to its messages in list  *)
(* order and does not stop at a message that fails: each message either    *)
(* succeeds and adds one to the returned count, or fails and adds one to   *)
(* the errors counter, and the next message is taken all the same.  So the *)
(* returned count plus the increase of errors is the number of messages.   *)
(***************************************************************************)
C23_Step ==
    last'.op = "process_market_data_batch" =>
        IF last.op # "process_market_data_batch"
        THEN /\ last'.batch_len = 0 /\ last'.processed = 0
             /\ book' = book /\ pstats' = pstats
        ELSE /\ last'.batch_len = last.batch_len + 1
             /\ IF last'.result = "Ok"
                THEN /\ last'.processed = last.processed + 1
                     /\ pstats'.errors = pstats.errors
                     /\ pstats'.messages_processed = pstats.messages_processed + 1
                ELSE /\ last'.processed = last.processed
                     /\ pstats'.errors = pstats.errors + 1
                     /\ pstats'.messages_processed = pstats.messages_processed

C23_Sum ==
    last.op = "process_market_data_batch" =>
        last.processed + (pstats.errors - last.errors_before) = last.batch_len

C23_BatchCounts == []C23_Sum /\ [][C23_Step]_vars

\* the second message of a batch succeeded after the first had failed
C23_Witness ==
    /\ last.op = "process_market_data_batch"
    /\ last.batch_len = 2 /\ last.processed = 1 /\ last.result = "Ok"
    /\ pstats.errors = last.errors_before + 1
    /\ pstats.messages_processed = 1

(***************************************************************************)
(* C25: determinism.  As claimed: two fresh pairs of a book and a          *)
(* processor that are fed the same messages have, after every message,     *)
(* the same outcome of that message, the same last_sequence_number and the *)
(* same ladders (prices and, per level, the queue of remaining             *)
(* quantities), whatever identifiers each pair generated.  The identifiers *)
(* are not part of the stream: a CancelOrder or ModifyOrder message that   *)
(* names an identifier one pair has indexed finds it in that pair only.    *)
(* As amended: the two pairs stay in step over every message that is not a *)
(* CancelOrder or ModifyOrder naming an identifier indexed in one of them. *)
(***************************************************************************)
\* what a ladder is, identifiers aside: per price the queue of quantities
QueueView(ladder) ==
    [p \in DOMAIN ladder |->
        [i \in 1..Len(ladder[p].orders) |-> ladder[p].orders[i].remaining_quantity]]

\* the two books are the same up to the generated identifiers
InStep(b, t) ==
    /\ b.last_sequence_number = t.last_sequence_number
    /\ QueueView(b.bids) = QueueView(t.bids)
    /\ QueueView(b.asks) = QueueView(t.asks)

\* the message names an identifier that one of the pairs has indexed
NamesGenerated(message, b, t) ==
    /\ message.kind \in {"CancelOrder", "ModifyOrder"}
    /\ \/ message.order_id \in DOMAIN b.orders
       \/ TwinName(message.order_id) \in DOMAIN t.orders

C25_Step ==
    (last'.op = "process" /\ InStep(book, twin.book)
        /\ ~NamesGenerated(last'.message, book, twin.book)) =>
        /\ last'.twin_result = last'.result
        /\ InStep(book', twin'.book)

C28_Step ==
    (last'.op = "process" /\ last'.kind = "NewOrder"
        /\ last'.message.sequence_number > book.last_sequence_number) =>
        LET message == last'.message
            o == last'.order
        IN /\ o = OrderNew(FreshId(DOMAIN book.orders), message.side,
                           message.order_type, message.price, message.quantity)
           /\ o.id \notin DOMAIN book.orders
           /\ DOMAIN book'.orders \subseteq DOMAIN book.orders \cup {o.id}
           /\ QueuedIds(book'.bids) \cup QueuedIds(book'.asks)
                 \subseteq QueuedIds(book.bids) \cup QueuedIds(book.asks) \cup {o.id}
           /\ (message.order_id # o.id /\ message.order_id \notin DOMAIN book.orders) =>
                 /\ message.order_id \notin DOMAIN book'.orders
                 /\ Places(book', message.order_id) = {}

C28_OrderIdNotAdopted == [][C28_Step]_vars

\* what was left of the order of a message rests under another identifier
\* than the one the message carried
C28_Witness ==
    /\ last.op = "process" /\ last.kind = "NewOrder" /\ last.result = "Ok"
    /\ last.trades # <<>>
    /\ Places(book, last.order.id) # {}
    /\ last.message.order_id # last.order.id
    /\ last.message.order_id \notin DOMAIN book.orders

(***************************************************************************)
(* C32: clear_all_orders empties both ladders and the order index and      *)
(* resets all of the book's statistics counters to zero, and leaves        *)
(* last_sequence_number as it was.                                         *)
(***************************************************************************)
C32_Step ==
    last'.op = "clear_all_orders" =>
        /\ book'.bids = EmptyMap /\ book'.asks = EmptyMap
        /\ book'.orders = EmptyMap
        /\ \A counter \in DOMAIN book'.stats : book'.stats[counter] = 0
        /\ book'.last_sequence_number = book.last_sequence_number

C32_ClearAllOrders == [][C32_Step]_vars

\* the book was cleared after the feed had added an order and advanced the
\* sequence number
C32_Witness ==
    /\ last.op = "clear_all_orders"
    /\ book.last_sequence_number > 0
    /\ pstats.new_orders > 0
    /\ book.stats = StatsDefault /\ size(book) = 0

(***************************************************************************)
(* C33: in every trade buy_order_id is the identifier of the Buy order and *)
(* sell_order_id that of the Sell order, whichever of the two is the       *)
(* maker, and the trade quantity is > 0 and is the smaller of what was     *)
(* left of the incoming order and what was left of the maker when they     *)
(* crossed.                                                                *)
(***************************************************************************)
\* the quantity of the trades before trade i of one call
TradedBefore(trades, i) == SumSeq([j \in 1..(i - 1) |-> trades[j].quantity])

\* the quantity the trades before trade i of one call took from the maker
\* of trade i
TakenBefore(trades, i, side) ==
    SumSeq([j \in 1..(i - 1) |->
               IF MakerId(trades[j], side) = MakerId(trades[i], side)
               THEN trades[j].quantity ELSE 0])

C33_Step ==
    AddCall(last') =>
        \A i \in 1..Len(last'.trades) :
            LET t == last'.trades[i]
                o == last'.order
                makers == {m \in Queued(Opposite(book, o.side)) :
                              m.id = MakerId(t, o.side)}
            IN /\ IF o.side = "Buy" THEN t.buy_order_id = o.id
                  ELSE t.sell_order_id = o.id
               /\ makers # {}
               /\ \A m \in makers :
                     /\ m.side # o.side
                     /\ m.id = IF o.side = "Buy" THEN t.sell_order_id ELSE t.buy_order_id
                     /\ t.quantity =
                            MinQuantity(o.remaining_quantity - TradedBefore(last'.trades, i),
                                        m.remaining_quantity
                                            - TakenBefore(last'.trades, i, o.side))
               /\ t.quantity > 0

C33_TradeSidesAndQuantity == [][C33_Step]_vars

\* an incoming Sell order filled one resting Buy order and took a part of the
\* next: the makers are the buyers, and the second trade is what was left of
\* the incoming order
C33_Witness ==
    /\ last.op = "add_order" /\ last.order.side = "Sell"
    /\ Len(last.trades) = 2
    /\ last.trades[1].buy_order_id # last.trades[2].buy_order_id
    /\ last.trades[1].sell_order_id = last.order.id
    /\ \E m \in Queued(book.bids) :
          m.id = last.trades[2].buy_order_id /\ m.remaining_quantity > 0

(***************************************************************************)
(* C34: matching goes as far as price permits.  As claimed: when add_order *)
(* returns Ok for a Limit, GoodTillCancel, GoodForDay, ImmediateOrCancel   *)
(* or Market order, or for a FillOrKill order that found enough, the       *)
(* returned trades sum to the order's quantity, or the opposite ladder is  *)
(* empty, or (the order not being a Market order) the best opposite price  *)
(* does not cross the order's limit.  modify_order hands add_order a       *)
(* replacement whose remaining_quantity differs from its original          *)
(* quantity, and there the trades sum to the remaining quantity the order  *)
(* entered with.                                                           *)
(***************************************************************************)
\* add_order matched the order (a FillOrKill that found too little is not)
Matched(c, b) ==
    /\ AddCall(c) /\ c.result = "Ok"
    /\ c.order.order_type = "FillOrKill" => Available(b, c.order) >= c.order.quantity

\* the matching of order o stopped where it had to, `entered` being the
\* quantity the order is held to and b the book it left
WentAsFar(c, b, entered) ==
    \/ TradedQuantity(c.trades) = entered
    \/ DOMAIN Opposite(b, c.order.side) = {}
    \/ /\ c.order.order_type # "Market"
       /\ IF c.order.side = "Buy" THEN get_best_ask(b) > c.order.price
          ELSE get_best_bid(b) < c.order.price

\* the claim as stated: the trades of every add_order sum to the original
\* quantity where the matching was not stopped by the opposite ladder
C34_Quantity_Step ==
    Matched(last', book) => WentAsFar(last', book', last'.order.quantity)

C34_Step ==
    /\ Matched(last', book) => WentAsFar(last', book', last'.order.remaining_quantity)
    /\ (Matched(last', book) /\ last'.op = "add_order") =>
          WentAsFar(last', book', last'.order.quantity)

C35_Step ==
    (last'.op \in {"cancel_order", "modify_order"}
        /\ last'.order_id \notin QueuedIds(book.bids) \cup QueuedIds(book.asks)) =>
        /\ last'.result = "OrderNotFound"
        /\ book' = book

C35_FilledIsForgotten == [][C35_Step]_vars

(***************************************************************************)
(* C36: whenever modify_order returns an error (OrderNotFound, or          *)
(* InvalidPrice / InvalidQuantity raised by the re-add) the ladders and    *)
(* the index are the same as before the call: the original order is still *)
(* resting at its place in its level.                                      *)
(***************************************************************************)
C36_Step ==
    (last'.op = "modify_order" /\ last'.result # "Ok") =>
        /\ book'.bids = book.bids
        /\ book'.asks = book.asks
        /\ book'.orders = book.orders

C36_FailedModifyChangesNothing == [][C36_Step]_vars

(***************************************************************************)
(* C37: a partially filled maker keeps its place.  When a trade takes only *)
(* a part of what is left of the head maker, the maker stays at the head   *)
(* of its level under the same identifier, with its remaining quantity     *)
(* lowered by the trade quantity; when the trade takes all of it, the      *)
(* maker leaves the level; either way the total_quantity of the level      *)
(* goes down by exactly the quantity traded at it.                         *)
(***************************************************************************)
\* the quantity the trades of one call took at price p
TradedAt(trades, p) ==
    SumSeq([j \in 1..Len(trades) |-> IF trades[j].price = p THEN trades[j].quantity ELSE 0])

\* the total_quantity of the level at price p, 0 when the ladder has none
TotalAt(ladder, p) == IF p \in DOMAIN ladder THEN ladder[p].total_quantity ELSE 0

C37_Step ==
    AddCall(last') =>
        LET o == last'.order
            before == Opposite(book, o.side)
            after == Opposite(book', o.side)
        IN /\ \A i \in 1..Len(last'.trades) :
                 LET t == last'.trades[i]
                 IN \A m \in {x \in Queued(before) : x.id = MakerId(t, o.side)} :
                       IF t.quantity < m.remaining_quantity
                       THEN /\ t.price \in DOMAIN after
                            /\ \E k \in 1..Len(before[t.price].orders) :
                                  /\ before[t.price].orders[k] = m
                                  /\ after[t.price].orders =
                                         <<[m EXCEPT !.remaining_quantity = @ - t.quantity]>>
                                         \o SubSeq(before[t.price].orders, k + 1,
                                                   Len(before[t.price].orders))
                       ELSE m.id \notin QueuedIds(after)
           /\ \A p \in DOMAIN before :
                 TotalAt(after, p) = TotalAt(before, p) - TradedAt(last'.trades, p)

C37_PartialFillKeepsPlace == [][C37_Step]_vars

\* the head of a level was filled in part and is still the head, in front of
\* another order of the level
C37_Witness ==
    /\ AddCall(last) /\ last.trades # <<>>
    /\ \E p \in DOMAIN Opposite(book, last.order.side) :
          LET level == Opposite(book, last.order.side)[p]
          IN /\ Len(level.orders) >= 2
             /\ Head(level.orders).id =
                    MakerId(last.trades[Len(last.trades)], last.order.side)
             /\ Head(level.orders).remaining_quantity < Head(level.orders).quantity
             /\ Head(level.orders).remaining_quantity > 0

(***************************************************************************)
(* C40: every add_order call terminates.  Each turn of the matching loop   *)
(* makes a trade of quantity >= 1 that lowers what is left of the incoming *)
(* order and either removes the head maker or exhausts the incoming order, *)
(* so the loop makes at most as many turns (trades) as there were orders   *)
(* resting on the opposite side, and it never ends in a failed lookup.     *)
(***************************************************************************)
\* the number of orders queued in a ladder
RestingCount(ladder) == SumSet([p \in DOMAIN ladder |-> Len(ladder[p].orders)], DOMAIN ladder)

C40_Step ==
    (AddCall(last') /\ Accepted(book, last'.order)) =>
        LET o == last'.order
            trades == last'.trades
            makers == Opposite(book, o.side)
        IN /\ last'.result = "Ok"
           /\ Len(trades) <= RestingCount(makers)
           /\ \A i \in 1..Len(trades) :
                 /\ trades[i].quantity >= 1
                 /\ TradedBefore(trades, i) + trades[i].quantity <= o.remaining_quantity
                 /\ \/ \E m \in Queued(makers) :
                          /\ m.id = MakerId(trades[i], o.side)
                          /\ m.remaining_quantity = trades[i].quantity
                          /\ m.id \notin QueuedIds(Opposite(book', o.side))
                    \/ /\ i = Len(trades)
                       /\ TradedQuantity(trades) = o.remaining_quantity

C40_MatchingTerminates == [][C40_Step]_vars

\* the loop made as many turns as there were orders on the opposite side:
\* two makers were filled one after the other and the opposite ladder is empty
C40_Witness ==
    /\ last.op = "add_order" /\ last.result = "Ok"
    /\ Len(last.trades) = 2
    /\ MakerId(last.trades[1], last.order.side) # MakerId(last.trades[2], last.order.side)
    /\ DOMAIN Opposite(book, last.order.side) = {}
    /\ TradedQuantity(last.trades) = last.order.quantity

(***************************************************************************)
(* C31: in the registry, cancel_order and modify_order on a symbol that    *)
(* has no book fail with OrderNotFound and create no book; add_order on a  *)
(* symbol seen for the first time creates the book of that symbol and      *)
(* returns what OrderBook::add_order returns on an empty book; on a known  *)
(* symbol every operation returns what the book of the symbol returns.     *)
(***************************************************************************)
\* the registry call c returned what the book call r returns, and left the
\* book that r leaves under the symbol
Verbatim(c, order_books, r) ==
    /\ c.result = r.result
    /\ c.trades = r.trades
    /\ c.symbol \in DOMAIN order_books
    /\ order_books[c.symbol] = r.book

C31_Step ==
    LET c == last'
        known == c.symbol \in DOMAIN engine
        its == IF known THEN engine[c.symbol] ELSE OrderBookNew
    IN /\ (c.op \in {"engine_cancel_order", "engine_modify_order"} /\ ~known) =>
             /\ c.result = "OrderNotFound"
             /\ engine' = engine
       /\ (c.op = "engine_add_order" /\ ~known) =>
             /\ DOMAIN engine' = DOMAIN engine \cup {c.symbol}
             /\ Verbatim(c, engine', add_order(OrderBookNew, c.order))
       /\ (c.op = "engine_add_order" /\ known) =>
             Verbatim(c, engine', add_order(its, c.order))
       /\ (c.op = "engine_cancel_order" /\ known) =>
             Verbatim(c, engine', CancelReturned(cancel_order(its, c.order_id)))
       /\ (c.op = "engine_modify_order" /\ known) =>
             \E new_price \in Prices \cup {None}, new_quantity \in Quantities \cup {None} :
                 Verbatim(c, engine', modify_order(its, c.order_id, new_price, new_quantity,
                                                   FreshId(EngineIds)))

C39_Step ==
    last'.op \in {"engine_add_order", "engine_cancel_order", "engine_modify_order"} =>
        /\ DOMAIN engine \subseteq DOMAIN engine'
        /\ DOMAIN engine' \subseteq DOMAIN engine \cup {last'.symbol}
        /\ \A s \in DOMAIN engine \ {last'.symbol} : engine'[s] = engine[s]

C39_SymbolsIsolated == [][C39_Step]_vars

\* an order traded in the book of one symbol while an order that it would
\* have crossed rests untouched in the book of the other
C39_Witness ==
    /\ last.op = "engine_add_order" /\ last.trades # <<>>
    /\ \E s \in DOMAIN engine \ {last.symbol} :
          \E m \in Queued(Opposite(engine[s], last.order.side)) :
              /\ m.remaining_quantity = m.quantity
              /\ Crosses(last.order.side, last.order.price, m.price)

(***************************************************************************)
(* C38: calls of process_market_data from tasks whose processors share one *)
(* book are serialized by the mutex of the book.  A task holds the lock    *)
(* exactly from the sequence check to the end of the dispatch (and while   *)
(* the live feed displays the book); it has released it on every return    *)
(* path (Ok, SequenceGap, an error of the dispatch); only the holder       *)
(* writes the book; a task that takes the lock finds no snapshot rebuild   *)
(* in progress and no sequence number advanced without its message         *)
(* applied; and the live feed does not hold the lock while it waits for    *)
(* the timer tick or for the HTTP fetch.                                   *)
(***************************************************************************)
\* the positions inside process_market_data, between lock() and the return
InProcess == {"check", "dispatch", "bids", "asks"}

C38_HolderIsInside ==
    /\ shared.lock \in Tasks \cup {NoHolder}
    /\ \A t \in Tasks : shared.lock = t <=> shared.pc[t] \in Critical
    /\ shared.pc["feed"] \in {"tick", "fetch", "lock", "display_lock"} => shared.lock # "feed"
    /\ shared.pc["caller"] = "idle" => shared.lock # "caller"

C38_Step ==
    /\ book' # book =>
          \E t \in Tasks :
              /\ shared.lock = t /\ shared.pc[t] \in InProcess
              /\ \A u \in Tasks \ {t} : shared'.pc[u] = shared.pc[u]
    /\ \A t \in Tasks :
          (shared.lock # t /\ shared'.lock = t) =>
              /\ shared.lock = NoHolder
              /\ \A u \in Tasks : shared.pc[u] \notin InProcess
    /\ \A t \in Tasks :
          (shared.pc[t] \in InProcess /\ shared'.pc[t] \notin InProcess) =>
              shared'.lock = NoHolder

C38_Serialized == []C38_HolderIsInside /\ [][C38_Step]_vars

\* the live feed holds a numbered snapshot and waits for the lock while the
\* other task, inside process_market_data, has advanced the sequence number
\* to the number of its message and has not applied the message yet
C38_Witness ==
    /\ shared.pc["feed"] = "lock"
    /\ shared.message["feed"].kind = "BookSnapshot"
    /\ shared.pc["caller"] = "dispatch"
    /\ shared.lock = "caller"
    /\ book.last_sequence_number = shared.message["caller"].sequence_number
    /\ shared.message["caller"].kind = "NewOrder"

====
